---- MODULE Spec2Model ----
(***************************************************************************)
(* SwarmDrop backend: pairing manager, transfer manager, sender and        *)
(* receiver sessions and the event dispatcher, as state machines.          *)
(*                                                                         *)
(* Node R is the node under study (responder of pairings, receiver of     *)
(* transfers); S is a paired peer that sends files; U is a peer that is   *)
(* not paired with R.                                                      *)
(***************************************************************************)
EXTENDS Integers, Sequences, FiniteSets, TLC

(***************************************************************************)
(* Bounds of the model                                                     *)
(***************************************************************************)
MaxTime == 2
MaxCalls == 2
MaxCodes == 2
MaxFaults == 1
BigChunks == 9

(***************************************************************************)
(* Program constants                                                       *)
(***************************************************************************)
CHUNK_SIZE == 262144
MAX_CONCURRENT_CHUNKS == 8
MAX_CHUNK_RETRIES == 3
RETRY_DELAY_BASE_MS == 500
MAX_RETRY_DELAY_MS == 2000

\* u32::MAX, the word 0xFFFFFFFF, written as its residue modulo 2^32 nearest
\* to zero: adding one to it gives the wrapped sum 0.
U32_MAX == -1

Peers == {"S", "U", "V"}
Codes == {"111111", "222222"}
ExpiresIn == {1}
CallIds == 1..MaxCalls
PendingIds == {1, 2}

\* Two nodes that pair with each other, and the peer of each.
Nodes == {"A", "B"}
PeerOf(n) == IF n = "A" THEN "B" ELSE "A"

NoCode == [code |-> "none"]
NoPending == [peer_id |-> "none"]
NoDevice == "none"
Direct == "direct"

\* The overlay numbers inbound requests; request 1 comes from U, request 2 from V.
RequesterOf(pending_id) == IF pending_id = 1 THEN "U" ELSE "V"

VARIABLES
  now,              \* wall clock in seconds (chrono::Utc::now().timestamp())
  active_code,      \* PairingManager.active_code: Mutex<Option<PairingCodeInfo>>
  gens_done,        \* number of generate_code calls that returned Ok
  pending_inbound,  \* PairingManager.pending_inbound: pending_id -> PendingInbound
  paired_devices,   \* PairingManager.paired_devices of node R: peer -> os_info
  calls,            \* handle_pairing_request invocations in progress
  used,             \* history: the code consumed since the last generate_code, if any
  requests,         \* per inbound request of R: the request_pairing call that made it
  discovered_peers, \* per requester: the os_info of R cached by get_device_info
  wire,             \* per inbound request of R: the PairingResponse sent back
  initiator_paired, \* per requester: what its paired_devices holds for R
  earlier,          \* history: the codes generate_code returned before the newest one
  net,              \* per node: who holds the NetManagerState mutex
  request_cmd,      \* per node: its request_pairing command
  respond_cmd,      \* per node: its respond_pairing_request command
  inbound_request,  \* per node: the Pairing request its peer sent to it
  holds_peer        \* per node: whether its paired_devices holds the peer

VARIABLES
  sink,             \* a PartFile of the file sink and the two paths it names
  api,              \* the managed NetManagerState and the last command invoked
  throttle,         \* the monotonic clock and the last_emit of each ProgressTracker
  pure,             \* a call of a pure function: its arguments and its result
  loop,             \* the event loop of S: inbound frames, spawned tasks, responses
  offer_calls       \* R: the accept and reject calls on pending offers

\* The state of the components that stand apart from pairing and transfer.
extraVars == <<sink, api, throttle, pure, loop, offer_calls>>

\* No pure function is being applied.
NoPure == [fn |-> "none"]

\* The event loop has dispatched no frame and the node receives nothing.
NoLoop == [frames |-> <<>>, recv |-> {}, recv_cancelled |-> {}, parts |-> {},
           overflow_checks |-> FALSE]

\* No accept_and_start_receive or reject_and_respond call was made.
NoOfferCalls == <<>>

\* No PartFile has been created yet.
NoSink == [handle |-> "none"]

\* The trackers of two sessions, as ProgressTracker::new leaves them
\* (last_emit: None, written -1), with the events each has emitted (the
\* Instant::now() of each) and whether a call was ever suppressed.
Trackers == {"s1", "s2"}
NoThrottle ==
  [clock |-> 0,
   trackers |-> [t \in Trackers |->
                   [last_emit |-> -1, events |-> <<>>, suppressed |-> FALSE]]]

\* The application as built: no NetManagerState is managed (lib.rs calls no
\* manage for it; commands::start does), no command was invoked.
NoManager == [paired_devices |-> {}, active_code |-> FALSE]
NoApi == [net |-> "unmanaged", manager |-> NoManager,
          command |-> "none", result |-> "none"]

\* The pairing commands of two nodes that pair with each other.
cmdVars == <<net, request_cmd, respond_cmd, inbound_request, holds_peer>>

\* The state of the requesters of a pairing.
hsVars == <<requests, discovered_peers, wire, initiator_paired>>

pairVars == <<now, active_code, gens_done, pending_inbound,
              paired_devices, calls, used, hsVars, earlier, cmdVars, extraVars>>

VARIABLES
  files,            \* the files S prepared and offers (PreparedTransfer.files)
  offer,            \* per offering peer: where its Offer request stands
  offer_result,     \* per offering peer: the OfferResult sent in answer
  start_send,       \* S: the send_offer call
  pending,          \* R: TransferManager.pending, session_id -> PendingOffer
  send_sessions,    \* S: TransferManager.send_sessions (the session ids held)
  send_cancelled,   \* S: the send sessions whose cancel token is set
  progress,         \* S: the ProgressTracker of the send session
  receive_sessions, \* R: TransferManager.receive_sessions (the session ids held)
  rsess,            \* R: the ReceiveSession object (session_id, peer_id, files, cancel token)
  pull,             \* R: the pull task (start_pulling / run_transfer)
  error_flag,       \* R: pull_file_chunks' shared error slot
  tasks,            \* R: the chunk tasks of the current file, by chunk index
  part,             \* R: the .part file of each offered file, if it exists
  final,            \* R: the file at each final path, if it exists
  complete_frame,   \* the Transfer::Complete request of the pull task
  cr,               \* R: the cancel_receive call
  cancel_frame,     \* the Transfer::Cancel request sent by cancel_receive
  faults,           \* number of network errors injected so far
  ui_R,             \* events emitted to the UI of R
  ui_S              \* events emitted to the UI of S

xferVars == <<files, offer, offer_result, start_send, pending, send_sessions,
              send_cancelled, progress, receive_sessions, rsess, pull, error_flag, tasks,
              part, final, complete_frame, cr, cancel_frame, faults, ui_R,
              ui_S>>

vars == <<pairVars, xferVars>>

\* What the file sink and the command layer leave alone.
baseVars == <<now, active_code, gens_done, pending_inbound, paired_devices,
              calls, used, hsVars, earlier, cmdVars, xferVars>>
sinkRest == <<baseVars, api, throttle, pure, loop, offer_calls>>
apiRest == <<baseVars, sink, throttle, pure, loop, offer_calls>>
throttleRest == <<baseVars, sink, api, pure, loop, offer_calls>>
pureRest == <<baseVars, sink, api, throttle, loop, offer_calls>>

(***************************************************************************)
(* Pairing codes (pairing/code.rs)                                         *)
(***************************************************************************)
\* PairingCodeInfo::generate: the digits are drawn at random, the validity
\* starts at the current second.
PairingCodeInfo_generate(code, expires_in_secs, t) ==
  [code |-> code, created_at |-> t, expires_at |-> t + expires_in_secs]

is_expired_reversed(info, t) == t < info.expires_at

\* PairingCodeInfo::is_expired
is_expired(info, t) == t > info.expires_at

\* A handle_pairing_request invocation: where it stands, the response it
\* carries, the code it took into the verify-and-consume section ("none"
\* when the section is skipped: method Direct, or a refusal) and its result.
IdleCall ==
  [pc |-> "idle", pending_id |-> 0, response |-> "none", code |-> "none",
   result |-> "none"]

\* A respond_pairing_request command: where it stands and the response the
\* user chose.
IdleRespond == [pc |-> "idle", response |-> "none"]

\* A request_pairing call of a requester: where it stands and the response
\* it returned.
IdleRequest == [pc |-> "idle", result |-> "none"]

(***************************************************************************)
(* PairingManager (pairing/manager.rs)                                     *)
(***************************************************************************)
PairVarsInit ==
  /\ pure = NoPure
  /\ now = 0
  /\ active_code = NoCode
  /\ gens_done = 0
  /\ pending_inbound = [p \in PendingIds |-> NoPending]
  /\ paired_devices = [p \in Peers |-> IF p = "S" THEN "os-S" ELSE NoDevice]
  /\ calls = [c \in CallIds |-> IdleCall]
  /\ used = "none"
  /\ requests = [pid \in PendingIds |-> IdleRequest]
  /\ discovered_peers = [pid \in PendingIds |-> NoDevice]
  /\ wire = [pid \in PendingIds |-> "none"]
  /\ initiator_paired = [pid \in PendingIds |-> NoDevice]
  /\ earlier = {}
  /\ net = [n \in Nodes |-> "free"]
  /\ request_cmd = [n \in Nodes |-> "idle"]
  /\ respond_cmd = [n \in Nodes |-> IdleRespond]
  /\ inbound_request = [n \in Nodes |-> "none"]
  /\ holds_peer = [n \in Nodes |-> FALSE]
  /\ sink = NoSink
  /\ api = NoApi
  /\ throttle = NoThrottle
  /\ loop = NoLoop
  /\ offer_calls = NoOfferCalls

\* The clock advances.
Tick ==
  /\ now < MaxTime
  /\ now' = now + 1
  /\ UNCHANGED <<active_code, gens_done, pending_inbound,
                 paired_devices, calls, used, xferVars, hsVars, earlier, cmdVars, extraVars>>

\* generate_code: the PairingCodeInfo is generated at entry (second t0), and
\* stored once get_addrs and put_record have returned Ok, which is now; it
\* overwrites the previous code. A failing get_addrs or put_record returns
\* through `?` before the store and changes nothing.
generate_code_stored(code, expires_in_secs, t0) ==
  /\ gens_done < MaxCodes
  /\ active_code' = PairingCodeInfo_generate(code, expires_in_secs, t0)
  /\ gens_done' = gens_done + 1
  /\ used' = "none"
  /\ UNCHANGED <<now, pending_inbound, paired_devices, calls, xferVars, hsVars>>

generate_code(code, expires_in_secs, t0) ==
  generate_code_stored(code, expires_in_secs, t0) /\ UNCHANGED <<earlier, cmdVars, extraVars>>

\* The code generate_code returned last: the active one, or the one consumed
\* since.
Newest == IF active_code # NoCode THEN active_code.code ELSE used

\* generate_code, with the code it replaces added to the history.
generate_code_replacing(code, expires_in_secs, t0) ==
  /\ generate_code_stored(code, expires_in_secs, t0)
  /\ earlier' = (earlier \cup (IF Newest = "none" THEN {} ELSE {Newest})) \ {code}
  /\ UNCHANGED <<cmdVars, extraVars>>

\* cache_inbound_request, called by the event loop for an inbound Pairing request.
cache_inbound_request(peer_id, pending_id) ==
  /\ pending_inbound[pending_id] = NoPending
  /\ pending_inbound' = [pending_inbound EXCEPT
        ![pending_id] = [peer_id |-> peer_id, os_info |-> "os-" \o peer_id]]
  /\ UNCHANGED <<now, active_code, gens_done, paired_devices,
                 calls, used, xferVars, hsVars, earlier, cmdVars, extraVars>>

VerifyResultAnyCode(guard, method, response, t) ==
  IF method = Direct \/ response # "Success" THEN "pass"
  ELSE IF guard = NoCode THEN "InvalidCode"
  ELSE IF is_expired(guard, t) THEN "ExpiredCode"
  ELSE "pass"

\* The outcome of the verify-and-consume section for the guarded value `guard`.
VerifyResult(guard, method, response, t) ==
  IF method = Direct \/ response # "Success" THEN "pass"
  ELSE IF guard = NoCode THEN "InvalidCode"
  ELSE IF guard.code # method THEN "InvalidCode"
  ELSE IF is_expired(guard, t) THEN "ExpiredCode"
  ELSE "pass"

ConsumeNever(guard, method, response, t) == guard

\* The value the section leaves in active_code: None once a Code/Success passed.
Consume(guard, method, response, t) ==
  IF /\ method # Direct
     /\ response = "Success"
     /\ VerifyResult(guard, method, response, t) = "pass"
  THEN NoCode
  ELSE guard

\* handle_pairing_request from entry to the await on send_response: the
\* critical section on active_code, entered only for Code + Success.
HandleVerify(c, pending_id, method, response) ==
  /\ calls[c].pc = "idle"
  /\ \A d \in CallIds : d < c => calls[d].pc # "idle"
  /\ LET r == VerifyResult(active_code, method, response, now)
         after == Consume(active_code, method, response, now)
     IN
       /\ active_code' = after
       /\ used' = IF method # Direct /\ response = "Success" /\ r = "pass"
                  THEN active_code.code ELSE used
       /\ calls' = [calls EXCEPT ![c] =
            [pc |-> IF r = "pass" THEN "respond" ELSE "done",
             pending_id |-> IF r = "pass" THEN pending_id ELSE 0,
             response |-> IF r = "pass" THEN response ELSE "none",
             code |-> IF method # Direct /\ response = "Success" THEN method ELSE "none",
             result |-> r]]
  /\ UNCHANGED <<now, gens_done, pending_inbound, paired_devices, xferVars, hsVars, earlier, cmdVars, extraVars>>

\* handle_pairing_request after send_response returned Ok: a refusal or a
\* missing cache entry cleans the cache and returns None; an acceptance
\* stores the PairedDeviceInfo.
handle_pairing_request_stored(c) ==
  /\ calls[c].pc = "respond"
  /\ LET pid == calls[c].pending_id
         inbound == pending_inbound[pid]
         accepted == calls[c].response = "Success"
     IN
       /\ pending_inbound' = [pending_inbound EXCEPT ![pid] = NoPending]
       /\ IF accepted /\ inbound # NoPending
          THEN /\ paired_devices' = [paired_devices EXCEPT ![inbound.peer_id] = inbound.os_info]
               /\ calls' = [calls EXCEPT ![c].pc = "done", ![c].pending_id = 0,
                                         ![c].response = "none", ![c].result = "OkSome"]
          ELSE /\ paired_devices' = paired_devices
               /\ calls' = [calls EXCEPT ![c].pc = "done", ![c].pending_id = 0,
                                         ![c].response = "none", ![c].result = "OkNone"]
  /\ UNCHANGED <<now, active_code, gens_done, used, xferVars>>

\* send_response returned Ok; what becomes of the response at the requester
\* is left out.
HandleRespondOk(c) == handle_pairing_request_stored(c) /\ UNCHANGED <<hsVars, earlier, cmdVars, extraVars>>

\* send_response returned an error: `?` returns it, nothing else is touched.
HandleRespondErr(c) ==
  /\ calls[c].pc = "respond"
  /\ calls' = [calls EXCEPT ![c].pc = "done", ![c].pending_id = 0,
                            ![c].response = "none", ![c].result = "NetworkError"]
  /\ UNCHANGED <<now, active_code, gens_done, pending_inbound,
                 paired_devices, used, xferVars, hsVars, earlier, cmdVars, extraVars>>

(***************************************************************************)
(* The requester of a pairing (pairing/manager.rs, on the other node)      *)
(***************************************************************************)
\* OsInfo::unknown_from_peer_id: a placeholder named after the peer id.
unknown_from_peer_id(peer_id) == "unknown-" \o peer_id

initiator_os_info_unknown(cached, peer_id) == unknown_from_peer_id(peer_id)

\* request_pairing on Success: the os_info taken out of discovered_peers, or
\* else the placeholder.
initiator_os_info(cached, peer_id) ==
  IF cached # NoDevice THEN cached ELSE unknown_from_peer_id(peer_id)

\* get_device_info of the requester of request pid: the os_info in R's share
\* record is cached.
get_device_info(pid) ==
  /\ requests[pid].pc = "idle"
  /\ discovered_peers[pid] = NoDevice
  /\ discovered_peers' = [discovered_peers EXCEPT ![pid] = "os-R"]
  /\ UNCHANGED <<now, active_code, gens_done, pending_inbound, paired_devices, calls,
                 used, requests, wire, initiator_paired, xferVars, earlier, cmdVars, extraVars>>

\* request_pairing up to the await on the Pairing request.
request_pairing_send(pid) ==
  /\ requests[pid].pc = "idle"
  /\ requests' = [requests EXCEPT ![pid].pc = "sent"]
  /\ UNCHANGED <<now, active_code, gens_done, pending_inbound, paired_devices, calls,
                 used, discovered_peers, wire, initiator_paired, xferVars, earlier, cmdVars, extraVars>>

\* The event loop of R dispatches the inbound Pairing request pid:
\* cache_inbound_request, then pairing-request-received goes to the UI.
DispatchPairingRequest(pid) ==
  /\ requests[pid].pc = "sent"
  /\ pending_inbound[pid] = NoPending
  /\ wire[pid] = "none"
  /\ pending_inbound' = [pending_inbound EXCEPT
        ![pid] = [peer_id |-> RequesterOf(pid), os_info |-> "os-" \o RequesterOf(pid)]]
  /\ requests' = [requests EXCEPT ![pid].pc = "cached"]
  /\ UNCHANGED <<now, active_code, gens_done, paired_devices, calls, used,
                 discovered_peers, wire, initiator_paired, xferVars, earlier, cmdVars, extraVars>>

\* send_response returned Ok for a request that was still waiting for its
\* response: the response is on its way to the requester.
HandleRespondSent(c) ==
  /\ calls[c].pc = "respond"
  /\ LET pid == calls[c].pending_id IN
       /\ requests[pid].pc = "cached"
       /\ wire[pid] = "none"
       /\ wire' = [wire EXCEPT ![pid] = calls[c].response]
  /\ handle_pairing_request_stored(c)
  /\ UNCHANGED <<requests, discovered_peers, initiator_paired, earlier, cmdVars, extraVars>>

\* request_pairing after the response has arrived: on Success the responder
\* is stored with the cached os_info or the placeholder; any other response
\* is returned and nothing is stored.
request_pairing_return(pid) ==
  /\ requests[pid].pc = "cached"
  /\ wire[pid] # "none"
  /\ requests' = [requests EXCEPT ![pid] = [pc |-> "done", result |-> wire[pid]]]
  /\ IF wire[pid] = "Success"
     THEN /\ initiator_paired' = [initiator_paired EXCEPT
                ![pid] = initiator_os_info(discovered_peers[pid], "R")]
          /\ discovered_peers' = [discovered_peers EXCEPT ![pid] = NoDevice]
     ELSE UNCHANGED <<initiator_paired, discovered_peers>>
  /\ UNCHANGED <<now, active_code, gens_done, pending_inbound, paired_devices, calls,
                 used, wire, xferVars, earlier, cmdVars, extraVars>>

\* The Pairing request fails or times out: `?` returns the error.
request_pairing_fails(pid) ==
  /\ requests[pid].pc \in {"sent", "cached"}
  /\ requests' = [requests EXCEPT ![pid] = [pc |-> "done", result |-> "NetworkError"]]
  /\ UNCHANGED <<now, active_code, gens_done, pending_inbound, paired_devices, calls,
                 used, discovered_peers, wire, initiator_paired, xferVars, earlier, cmdVars, extraVars>>

\* respond_pairing_request, which the UI calls for a request it was shown.
respond_pairing_request(c, pending_id, method, response) ==
  /\ pending_inbound[pending_id] # NoPending
  /\ HandleVerify(c, pending_id, method, response)

HandshakeNext ==
  \/ \E code \in Codes, e \in ExpiresIn, t0 \in 0..now : generate_code(code, e, t0)
  \/ \E pid \in PendingIds : get_device_info(pid)
  \/ \E pid \in PendingIds : request_pairing_send(pid)
  \/ \E pid \in PendingIds : DispatchPairingRequest(pid)
  \/ \E c \in CallIds, pid \in PendingIds, m \in Codes \cup {Direct},
        r \in {"Success", "Refused"} : respond_pairing_request(c, pid, m, r)
  \/ \E c \in CallIds : HandleRespondSent(c)
  \/ \E c \in CallIds : HandleRespondErr(c)
  \/ \E pid \in PendingIds : request_pairing_return(pid)
  \/ \E pid \in PendingIds : request_pairing_fails(pid)

(***************************************************************************)
(* The pairing commands and the NetManagerState mutex (commands/pairing.rs) *)
(***************************************************************************)
\* Everything of the model that the commands of nodes A and B leave alone.
nodeRest == <<now, active_code, gens_done, pending_inbound, paired_devices, calls,
              used, hsVars, earlier, xferVars, extraVars>>

\* The user of node n invokes request_pairing: the command waits for the
\* NetManagerState mutex.
request_pairing_invoke(n) ==
  /\ request_cmd[n] = "idle"
  /\ request_cmd' = [request_cmd EXCEPT ![n] = "locking"]
  /\ UNCHANGED <<net, respond_cmd, inbound_request, holds_peer, nodeRest>>

\* request_pairing of node n from `net.lock().await` to the await on the
\* Pairing request inside PairingManager::request_pairing: the guard is a
\* local of the command and lives until the command returns.
request_pairing_locked(n) ==
  /\ request_cmd[n] = "locking"
  /\ net[n] = "free"
  /\ net' = [net EXCEPT ![n] = "request_pairing"]
  /\ request_cmd' = [request_cmd EXCEPT ![n] = "awaiting"]
  /\ inbound_request' = [inbound_request EXCEPT ![PeerOf(n)] = "sent"]
  /\ UNCHANGED <<respond_cmd, holds_peer, nodeRest>>

\* The event loop of node n dispatches the inbound Pairing request: it is
\* cached and shown to the user. The event loop does not take the mutex.
InboundPairingShown(n) ==
  /\ inbound_request[n] = "sent"
  /\ inbound_request' = [inbound_request EXCEPT ![n] = "shown"]
  /\ UNCHANGED <<net, request_cmd, respond_cmd, holds_peer, nodeRest>>

\* The response to the Pairing request of node n has arrived:
\* request_pairing stores the peer on Success, the command returns and its
\* guard is dropped.
request_pairing_returned(n) ==
  /\ request_cmd[n] = "awaiting"
  /\ inbound_request[PeerOf(n)] \in {"Success", "Refused"}
  /\ request_cmd' = [request_cmd EXCEPT ![n] = inbound_request[PeerOf(n)]]
  /\ holds_peer' = [holds_peer EXCEPT
                      ![n] = holds_peer[n] \/ inbound_request[PeerOf(n)] = "Success"]
  /\ net' = [net EXCEPT ![n] = "free"]
  /\ UNCHANGED <<respond_cmd, inbound_request, nodeRest>>

\* The Pairing request of node n times out: `?` returns the error, the
\* command returns and its guard is dropped. The peer can no longer answer.
request_pairing_timeout(n) ==
  /\ request_cmd[n] = "awaiting"
  /\ inbound_request[PeerOf(n)] \in {"sent", "shown"}
  /\ request_cmd' = [request_cmd EXCEPT ![n] = "Timeout"]
  /\ inbound_request' = [inbound_request EXCEPT ![PeerOf(n)] =
        IF inbound_request[PeerOf(n)] = "shown" THEN "dropped" ELSE "lost"]
  /\ net' = [net EXCEPT ![n] = "free"]
  /\ UNCHANGED <<respond_cmd, holds_peer, nodeRest>>

\* The user of node n answers the request shown: respond_pairing_request is
\* invoked and waits for the NetManagerState mutex.
respond_pairing_request_invoke(n, response) ==
  /\ respond_cmd[n].pc = "idle"
  /\ inbound_request[n] \in {"shown", "dropped"}
  /\ respond_cmd' = [respond_cmd EXCEPT ![n] = [pc |-> "locking", response |-> response]]
  /\ UNCHANGED <<net, request_cmd, inbound_request, holds_peer, nodeRest>>

\* respond_pairing_request of node n from `net.lock().await` to the await on
\* send_response inside handle_pairing_request (method Direct).
respond_pairing_request_locked(n) ==
  /\ respond_cmd[n].pc = "locking"
  /\ net[n] = "free"
  /\ net' = [net EXCEPT ![n] = "respond_pairing_request"]
  /\ respond_cmd' = [respond_cmd EXCEPT ![n].pc = "sending"]
  /\ UNCHANGED <<request_cmd, inbound_request, holds_peer, nodeRest>>

\* send_response has returned: Ok when the peer still awaited the response,
\* and then an accepted peer is stored; an error otherwise. The command
\* returns and its guard is dropped.
respond_pairing_request_returned(n) ==
  /\ respond_cmd[n].pc = "sending"
  /\ IF inbound_request[n] = "shown"
     THEN /\ inbound_request' = [inbound_request EXCEPT ![n] = respond_cmd[n].response]
          /\ holds_peer' = [holds_peer EXCEPT
                ![n] = holds_peer[n] \/ respond_cmd[n].response = "Success"]
          /\ respond_cmd' = [respond_cmd EXCEPT ![n].pc = "Ok"]
     ELSE /\ respond_cmd' = [respond_cmd EXCEPT ![n].pc = "Err"]
          /\ UNCHANGED <<inbound_request, holds_peer>>
  /\ net' = [net EXCEPT ![n] = "free"]
  /\ UNCHANGED <<request_cmd, nodeRest>>

CommandNext ==
  \/ \E n \in Nodes : request_pairing_invoke(n)
  \/ \E n \in Nodes : request_pairing_locked(n)
  \/ \E n \in Nodes : InboundPairingShown(n)
  \/ \E n \in Nodes : request_pairing_returned(n)
  \/ \E n \in Nodes : request_pairing_timeout(n)
  \/ \E n \in Nodes, r \in {"Success", "Refused"} : respond_pairing_request_invoke(n, r)
  \/ \E n \in Nodes : respond_pairing_request_locked(n)
  \/ \E n \in Nodes : respond_pairing_request_returned(n)

PairNext ==
  \/ Tick
  \/ \E code \in Codes, e \in ExpiresIn, t0 \in 0..now : generate_code(code, e, t0)
  \/ \E pid \in PendingIds : cache_inbound_request(RequesterOf(pid), pid)
  \/ \E c \in CallIds, pid \in PendingIds, m \in Codes \cup {Direct},
        r \in {"Success", "Refused"} : HandleVerify(c, pid, m, r)
  \/ \E c \in CallIds : HandleRespondOk(c)
  \/ \E c \in CallIds : HandleRespondErr(c)

(***************************************************************************)
(* Files, chunks and the chunk codec                                       *)
(***************************************************************************)
Offerers == {"S", "U"}
Sessions == {"s1", "s2"}

\* generate_id() of the offering peer: S's offer is session s1, U's is s2.
SessionOf(p) == IF p = "S" THEN "s1" ELSE "s2"
OffererOf(sid) == IF sid = "s1" THEN "S" ELSE "U"

\* Number of CHUNK_SIZE blocks that hold `size` bytes.
NumBlocks(size) == (size + CHUNK_SIZE - 1) \div CHUNK_SIZE

\* calc_total_chunks: an empty file counts one chunk.
calc_total_chunks(file_size) ==
  IF file_size = 0 THEN 1 ELSE NumBlocks(file_size)

\* The digest of a file's content; BLAKE3 is taken to be collision free, so a
\* digest is written as the content it was computed from.
Blake3(content) == <<"blake3", content.size, content.data>>

\* A file of `size` bytes whose block k is filled with byte data[k].
Content(size, data) == [size |-> size, data |-> data]

\* PreparedFile / FileInfo: identifier, size, checksum and (on S) the source.
MkFile(file_id, size, data) ==
  [file_id |-> file_id, size |-> size, data |-> data,
   checksum |-> Blake3(Content(size, data))]

NoFile == [size |-> -1]
NoKey == "None"
NoResult == [accepted |-> FALSE, key |-> NoKey, reason |-> "none"]
NoOffer == [peer_id |-> "none"]
NoSession == [session_id |-> "none"]
NoResp == [kind |-> "none"]
\* A chunk task: where it stands, the loop variable of pull_single_chunk, the
\* answer on its way (or, once the task returned an error, the reason), the
\* number of ChunkRequests it has sent, and the backoff sleeps it has taken.
NoTask == [pc |-> "none", attempt |-> 0, resp |-> NoResp, sent |-> 0, delays |-> <<>>]
Failure(why) == [kind |-> why]
Ack == [kind |-> "Ack"]
NetworkError == [kind |-> "NetworkError"]
HandlerErr == [kind |-> "Err"]
ReadErr == [len |-> -1, fill |-> 0]
DecryptionFailed == [len |-> -2, fill |-> 0]

\* generate_key(): a fresh random key.
generate_key == "k1"

\* File::create followed by set_len(size): a file of `size` zero bytes.
ZeroFile(size) == Content(size, [k \in 1..NumBlocks(size) |-> 0])

\* Length in bytes of block chunk_index of a file of `size` bytes.
BlockLen(size, chunk_index) ==
  IF size - chunk_index * CHUNK_SIZE < CHUNK_SIZE
  THEN size - chunk_index * CHUNK_SIZE
  ELSE CHUNK_SIZE

\* read_chunk_sync: an empty file yields an empty chunk, an offset at or past
\* the end is an error (as a u64 the offset of chunk u32::MAX is past the end
\* of every file here), otherwise the block is read.
read_chunk(file, chunk_index) ==
  IF file.size = 0 THEN [len |-> 0, fill |-> 0]
  ELSE IF chunk_index = U32_MAX \/ chunk_index * CHUNK_SIZE >= file.size THEN ReadErr
  ELSE [len |-> BlockLen(file.size, chunk_index), fill |-> file.data[chunk_index + 1]]

derive_nonce_without_chunk(session_id, file_id, chunk_index) == <<session_id, file_id, 0>>

\* derive_nonce
derive_nonce(session_id, file_id, chunk_index) == <<session_id, file_id, chunk_index>>

encrypt_chunk_swapped(key, session_id, file_id, chunk_index, plaintext) ==
  [key |-> key, nonce |-> derive_nonce(session_id, chunk_index, file_id),
   plaintext |-> plaintext]

\* ChunkCrypto::encrypt_chunk
encrypt_chunk(key, session_id, file_id, chunk_index, plaintext) ==
  [key |-> key, nonce |-> derive_nonce(session_id, file_id, chunk_index),
   plaintext |-> plaintext]

\* ChunkCrypto::decrypt_chunk: the tag verifies only under the same key and nonce.
decrypt_chunk(key, session_id, file_id, chunk_index, ciphertext) ==
  IF /\ ciphertext.key = key
     /\ ciphertext.nonce = derive_nonce(session_id, file_id, chunk_index)
  THEN ciphertext.plaintext
  ELSE DecryptionFailed

\* write_chunk_at_offset on an existing file: seek to offset, write_all.
write_chunk_at_offset(content, offset, plaintext) ==
  IF plaintext.len = 0 THEN content
  ELSE LET k == (offset \div CHUNK_SIZE) + 1
           end == offset + plaintext.len
       IN [size |-> IF end > content.size THEN end ELSE content.size,
           data |-> IF k <= Len(content.data)
                    THEN [content.data EXCEPT ![k] = plaintext.fill]
                    ELSE Append(content.data, plaintext.fill)]

\* verify_checksum on an existing file.
verify_checksum(content, expected_hex) == Blake3(content) = expected_hex

\* The file lists S may have prepared.
F_empty == MkFile(1, 0, <<>>)
F_small == MkFile(2, 1, <<7>>)
F_two == MkFile(3, CHUNK_SIZE + 1, <<7, 7>>)
FileSets == {<<F_small>>, <<F_empty, F_small>>, <<F_two>>}
FileIdx == {1, 2}

(***************************************************************************)
(* Offers (transfer/offer.rs, network/event_loop.rs)                       *)
(***************************************************************************)
NoPull == [pc |-> "none", file |-> 0, next |-> 0, result |-> "none", error |-> "none"]
NoCancelCall ==
  [pc |-> "idle", session_id |-> "none", i |-> 0, result |-> "none",
   at |-> "none", had |-> {}]
NoFrame == [state |-> "none"]

\* Sum of the sizes of a list of files.
RECURSIVE SumSizes(_)
SumSizes(fs) == IF fs = <<>> THEN 0 ELSE Head(fs).size + SumSizes(Tail(fs))

\* No send session yet, hence no tracker.
NoProgress == [total_bytes |-> 0, transferred_bytes |-> 0, total_files |-> 0,
               completed_files |-> 0, files |-> <<>>]

\* SendSession::new: ProgressTracker::new followed by init_files.
ProgressTracker_new(fs) ==
  [total_bytes |-> SumSizes(fs), transferred_bytes |-> 0,
   total_files |-> Len(fs), completed_files |-> 0,
   files |-> [k \in 1..Len(fs) |->
                [file_id |-> fs[k].file_id, size |-> fs[k].size, transferred |-> 0,
                 status |-> "Pending", chunks_done |-> 0,
                 total_chunks |-> calc_total_chunks(fs[k].size)]]]

\* ProgressTracker::add_bytes
add_bytes(p, bytes) == [p EXCEPT !.transferred_bytes = p.transferred_bytes + bytes]

\* ProgressTracker::update_file_chunk
update_file_chunk(p, file_id, chunk_bytes) ==
  IF \A k \in DOMAIN p.files : p.files[k].file_id # file_id THEN p
  ELSE LET k == CHOOSE j \in DOMAIN p.files : p.files[j].file_id = file_id
           f == p.files[k]
           done == f.chunks_done + 1 >= f.total_chunks
       IN [p EXCEPT !.files[k] =
                      [f EXCEPT !.chunks_done = f.chunks_done + 1,
                                !.transferred = IF done THEN f.size
                                                ELSE f.transferred + chunk_bytes,
                                !.status = IF done THEN "Completed" ELSE "Transferring"],
                    !.completed_files = IF done THEN p.completed_files + 1
                                        ELSE p.completed_files]

\* The transfer managers of both nodes as TransferManager::new leaves them.
XferStart ==
  /\ offer = [p \in Offerers |-> "none"]
  /\ offer_result = [p \in Offerers |-> NoResult]
  /\ start_send = "idle"
  /\ pending = [sid \in Sessions |-> NoOffer]
  /\ send_sessions = {}
  /\ send_cancelled = {}
  /\ progress = NoProgress
  /\ receive_sessions = {}
  /\ rsess = NoSession
  /\ pull = NoPull
  /\ error_flag = "none"
  /\ tasks = <<>>
  /\ part = [i \in FileIdx |-> NoFile]
  /\ final = [i \in FileIdx |-> NoFile]
  /\ complete_frame = "none"
  /\ cr = NoCancelCall
  /\ cancel_frame = NoFrame
  /\ faults = 0
  /\ ui_R = <<>>
  /\ ui_S = <<>>

XferInit == files \in FileSets /\ XferStart

\* The transfer variables while only the pairing manager is exercised.
XferVarsInit ==
  /\ files = <<F_small>>
  /\ offer = [p \in Offerers |-> "none"]
  /\ offer_result = [p \in Offerers |-> NoResult]
  /\ start_send = "idle"
  /\ pending = [sid \in Sessions |-> NoOffer]
  /\ send_sessions = {}
  /\ send_cancelled = {}
  /\ progress = NoProgress
  /\ receive_sessions = {}
  /\ rsess = NoSession
  /\ pull = NoPull
  /\ error_flag = "none"
  /\ tasks = <<>>
  /\ part = [i \in FileIdx |-> NoFile]
  /\ final = [i \in FileIdx |-> NoFile]
  /\ complete_frame = "none"
  /\ cr = NoCancelCall
  /\ cancel_frame = NoFrame
  /\ faults = 0
  /\ ui_R = <<>>
  /\ ui_S = <<>>

PairInit == PairVarsInit /\ XferVarsInit

\* The state in which a pure function is applied to the arguments `inputs`
\* offers: nothing else has happened.
PureInit(inputs) ==
  /\ pure \in inputs
  /\ now = 0
  /\ active_code = NoCode
  /\ gens_done = 0
  /\ pending_inbound = [p \in PendingIds |-> NoPending]
  /\ paired_devices = [p \in Peers |-> IF p = "S" THEN "os-S" ELSE NoDevice]
  /\ calls = [c \in CallIds |-> IdleCall]
  /\ used = "none"
  /\ requests = [pid \in PendingIds |-> IdleRequest]
  /\ discovered_peers = [pid \in PendingIds |-> NoDevice]
  /\ wire = [pid \in PendingIds |-> "none"]
  /\ initiator_paired = [pid \in PendingIds |-> NoDevice]
  /\ earlier = {}
  /\ net = [n \in Nodes |-> "free"]
  /\ request_cmd = [n \in Nodes |-> "idle"]
  /\ respond_cmd = [n \in Nodes |-> IdleRespond]
  /\ inbound_request = [n \in Nodes |-> "none"]
  /\ holds_peer = [n \in Nodes |-> FALSE]
  /\ sink = NoSink
  /\ api = NoApi
  /\ throttle = NoThrottle
  /\ loop = NoLoop
  /\ offer_calls = NoOfferCalls
  /\ XferVarsInit

PairSpec == PairInit /\ [][PairNext]_vars

\* The pairing commands of two nodes that pair with each other.
CommandSpec == PairInit /\ [][CommandNext]_vars

\* The pairing codes of R over time: generation, expiry and verification.
CodeNext ==
  \/ Tick
  \/ \E code \in Codes, e \in ExpiresIn, t0 \in 0..now :
        generate_code_replacing(code, e, t0)
  \/ \E c \in CallIds, pid \in PendingIds, m \in Codes \cup {Direct},
        r \in {"Success", "Refused"} : HandleVerify(c, pid, m, r)
  \/ \E c \in CallIds : HandleRespondOk(c)
  \/ \E c \in CallIds : HandleRespondErr(c)

CodeSpec == PairInit /\ [][CodeNext]_vars

\* Pairing handshakes between R and its requesters.
HandshakeSpec == PairInit /\ [][HandshakeNext]_vars

is_paired_anyone(peer_id) == TRUE

\* PairingManager::is_paired
is_paired(peer_id) == paired_devices[peer_id] # NoDevice

\* The files the offer of peer p lists.
OfferedFiles(p) == IF p = "S" THEN files ELSE <<F_small>>

\* An event for the UI.
Event(name, session_id, direction) ==
  [name |-> name, session_id |-> session_id, direction |-> direction]

\* send_offer up to the await on the Offer request (S), or an Offer that the
\* unpaired peer U sends.
send_offer(p) ==
  /\ offer[p] = "none"
  /\ offer' = [offer EXCEPT ![p] = "sent"]
  /\ start_send' = IF p = "S" THEN "awaiting" ELSE start_send
  /\ UNCHANGED <<pairVars, files, offer_result, pending, send_sessions, send_cancelled, progress,
                 receive_sessions, rsess, pull, error_flag, tasks, part, final,
                 complete_frame, cr, cancel_frame, faults, ui_R, ui_S>>

\* The event loop of R dispatches an inbound Offer of peer p: an unpaired
\* peer is answered with a refusal and nothing else happens; otherwise the
\* offer is cached and transfer-offer is emitted.
DispatchOffer(p) ==
  /\ offer[p] = "sent"
  /\ IF ~is_paired(p)
     THEN /\ offer' = [offer EXCEPT ![p] = "answered"]
          /\ offer_result' = [offer_result EXCEPT ![p] =
                [accepted |-> FALSE, key |-> NoKey, reason |-> "not-paired"]]
          /\ UNCHANGED <<pending, ui_R>>
     ELSE /\ offer' = [offer EXCEPT ![p] = "cached"]
          /\ pending' = [pending EXCEPT ![SessionOf(p)] =
                [peer_id |-> p, session_id |-> SessionOf(p), files |-> OfferedFiles(p)]]
          /\ ui_R' = Append(ui_R, Event("transfer-offer", SessionOf(p), "receive"))
          /\ UNCHANGED offer_result
  /\ UNCHANGED <<pairVars, files, start_send, send_sessions, send_cancelled, progress,
                 receive_sessions, rsess, pull, error_flag, tasks, part, final,
                 complete_frame, cr, cancel_frame, faults, ui_S>>

\* The peer that S offered to answers OfferResult{accepted: true, key: None},
\* which no accept_and_start_receive produces: nothing changes on R.
OfferResultWithoutKey ==
  /\ offer["S"] = "sent"
  /\ offer' = [offer EXCEPT !["S"] = "answered"]
  /\ offer_result' = [offer_result EXCEPT !["S"] =
        [accepted |-> TRUE, key |-> NoKey, reason |-> "none"]]
  /\ UNCHANGED <<pairVars, files, start_send, pending, send_sessions, send_cancelled,
                 progress, receive_sessions, rsess, pull, error_flag, tasks, part, final,
                 complete_frame, cr, cancel_frame, faults, ui_R, ui_S>>

keep(sessions, session_id) == sessions

\* DashMap::remove on a session map.
remove(sessions, session_id) == sessions \ {session_id}

\* accept_and_start_receive: the pending offer is taken, the OfferResult with
\* a fresh key is sent, the ReceiveSession is registered and its pull task is
\* spawned.
accept_and_start_receive(session_id) ==
  /\ pending[session_id] # NoOffer
  /\ pull.pc = "none"
  /\ LET o == pending[session_id] IN
       /\ pending' = [pending EXCEPT ![session_id] = NoOffer]
       /\ offer' = [offer EXCEPT ![o.peer_id] = "answered"]
       /\ offer_result' = [offer_result EXCEPT ![o.peer_id] =
             [accepted |-> TRUE, key |-> generate_key, reason |-> "none"]]
       /\ receive_sessions' = receive_sessions \cup {session_id}
       /\ rsess' = [session_id |-> session_id, peer_id |-> o.peer_id,
                    files |-> o.files, key |-> generate_key, cancelled |-> FALSE]
       /\ pull' = [NoPull EXCEPT !.pc = "top", !.file = 1]
  /\ UNCHANGED <<pairVars, files, start_send, send_sessions, send_cancelled, progress, error_flag,
                 tasks, part, final, complete_frame, cr, cancel_frame, faults,
                 ui_R, ui_S>>

\* reject_and_respond: the pending offer is taken and a refusal is sent.
reject_and_respond(session_id) ==
  /\ pending[session_id] # NoOffer
  /\ LET o == pending[session_id] IN
       /\ pending' = [pending EXCEPT ![session_id] = NoOffer]
       /\ offer' = [offer EXCEPT ![o.peer_id] = "answered"]
       /\ offer_result' = [offer_result EXCEPT ![o.peer_id] =
             [accepted |-> FALSE, key |-> NoKey, reason |-> "user-rejected"]]
  /\ UNCHANGED <<pairVars, files, start_send, send_sessions, send_cancelled, progress,
                 receive_sessions, rsess, pull, error_flag, tasks, part, final,
                 complete_frame, cr, cancel_frame, faults, ui_R, ui_S>>

\* send_offer after the OfferResult arrived: the SendSession is created and
\* registered only for an acceptance that carries a key.
send_offer_return ==
  /\ start_send = "awaiting"
  /\ offer["S"] = "answered"
  /\ LET r == offer_result["S"] IN
       /\ send_sessions' = IF r.accepted /\ r.key # NoKey
                           THEN send_sessions \cup {SessionOf("S")}
                           ELSE send_sessions
       /\ progress' = IF r.accepted /\ r.key # NoKey
                       THEN ProgressTracker_new(files)
                       ELSE progress
       /\ start_send' = IF r.accepted THEN "accepted" ELSE "rejected"
  /\ UNCHANGED <<pairVars, files, offer, offer_result, pending, send_cancelled,
                 receive_sessions, rsess, pull, error_flag, tasks, part, final,
                 complete_frame, cr, cancel_frame, faults, ui_R, ui_S>>

(***************************************************************************)
(* ReceiveSession: the pull task (transfer/receiver.rs)                    *)
(***************************************************************************)
offerVars == <<offer, offer_result, start_send, pending>>
cancelVars == <<cr, cancel_frame>>

\* The file the pull task is working on.
CurFile == rsess.files[pull.file]

\* Chunk tasks that hold a semaphore permit: spawned and not yet returned.
Holding == {i \in DOMAIN tasks : tasks[i].pc \notin {"none", "done"}}

\* ChunkRequests sent and not yet answered.
InFlight == {i \in DOMAIN tasks : tasks[i].pc \in {"req", "resp"}}

permit_free_unbounded == TRUE

\* Semaphore::acquire_owned is ready: fewer than MAX_CONCURRENT_CHUNKS permits are out.
permit_free == Cardinality(Holding) < MAX_CONCURRENT_CHUNKS

\* The loop of run_transfer over the session's files ends at once, whatever
\* is left to receive.
files_exhausted_at_once == pull.file > 1

\* The loop of run_transfer over the session's files has gone through every
\* file: each earlier turn ended with the rename of that file.
files_exhausted == pull.file > Len(rsess.files)

\* run_transfer at the head of the loop over the files: after the last file
\* the Complete request is sent; a cancelled session emits transfer-failed
\* and returns Ok; otherwise the loop body starts.
run_transfer_top ==
  /\ pull.pc = "top"
  /\ IF files_exhausted
     THEN /\ complete_frame' = "sent"
          /\ pull' = [pull EXCEPT !.pc = "complete"]
          /\ ui_R' = ui_R
     ELSE IF rsess.cancelled
     THEN /\ ui_R' = Append(ui_R, Event("transfer-failed", rsess.session_id, "receive"))
          /\ pull' = [pull EXCEPT !.pc = "finished", !.result = "Ok"]
          /\ complete_frame' = complete_frame
     ELSE /\ pull' = [pull EXCEPT !.pc = "create"]
          /\ UNCHANGED <<complete_frame, ui_R>>
  /\ UNCHANGED <<pairVars, files, offerVars, send_sessions, send_cancelled, progress,
                 receive_sessions, rsess, error_flag, tasks, part, final,
                 cancelVars, faults, ui_S>>

\* run_transfer creates the .part file, sets its length, and enters
\* pull_file_chunks with a fresh semaphore and error slot.
run_transfer_create ==
  /\ pull.pc = "create"
  /\ part' = [part EXCEPT ![pull.file] = ZeroFile(CurFile.size)]
  /\ tasks' = [i \in 0..(calc_total_chunks(CurFile.size) - 1) |-> NoTask]
  /\ error_flag' = "none"
  /\ pull' = [pull EXCEPT !.pc = "spawn", !.next = 0]
  /\ UNCHANGED <<pairVars, files, offerVars, send_sessions, send_cancelled, progress,
                 receive_sessions, rsess, final, complete_frame, cancelVars,
                 faults, ui_R, ui_S>>

\* pull_file_chunks, one turn of the loop over the chunk indexes: the select!
\* takes a permit and spawns the chunk task, or, when the session is
\* cancelled, may take the cancelled branch and leave the loop.
pull_file_chunks_spawn ==
  /\ pull.pc = "spawn"
  /\ pull.next < calc_total_chunks(CurFile.size)
  /\ permit_free
  /\ tasks' = [tasks EXCEPT ![pull.next] = [NoTask EXCEPT !.pc = "spawned"]]
  /\ pull' = [pull EXCEPT !.next = pull.next + 1,
                          !.pc = IF pull.next + 1 = calc_total_chunks(CurFile.size)
                                 THEN "join" ELSE "spawn"]
  /\ UNCHANGED <<pairVars, files, offerVars, send_sessions, send_cancelled, progress,
                 receive_sessions, rsess, error_flag, part, final,
                 complete_frame, cancelVars, faults, ui_R, ui_S>>

pull_file_chunks_break ==
  /\ pull.pc = "spawn"
  /\ pull.next < calc_total_chunks(CurFile.size)
  /\ rsess.cancelled
  /\ pull' = [pull EXCEPT !.pc = "join"]
  /\ UNCHANGED <<pairVars, files, offerVars, send_sessions, send_cancelled, progress,
                 receive_sessions, rsess, error_flag, tasks, part, final,
                 complete_frame, cancelVars, faults, ui_R, ui_S>>

TaskFailed_overwriting(i, why) ==
  /\ tasks' = [tasks EXCEPT ![i].pc = "done", ![i].resp = Failure(why)]
  /\ error_flag' = why
  /\ rsess' = [rsess EXCEPT !.cancelled = TRUE]

\* A chunk task fails: the error is put into the slot when the slot is
\* empty, and the session is cancelled.
TaskFailed(i, why) ==
  /\ tasks' = [tasks EXCEPT ![i].pc = "done", ![i].resp = Failure(why)]
  /\ error_flag' = IF error_flag = "none" THEN why ELSE error_flag
  /\ rsess' = [rsess EXCEPT !.cancelled = TRUE]

\* A spawned chunk task starts: it returns at once when the session is
\* cancelled or an error is already recorded; otherwise pull_single_chunk
\* checks the cancel flag and sends the ChunkRequest of attempt 0.
chunk_task_start(i) ==
  /\ i \in DOMAIN tasks
  /\ tasks[i].pc = "spawned"
  /\ tasks' = [tasks EXCEPT ![i] =
        IF rsess.cancelled \/ error_flag # "none"
        THEN [NoTask EXCEPT !.pc = "done"]
        ELSE [NoTask EXCEPT !.pc = "req", !.sent = 1]]
  /\ UNCHANGED <<pairVars, files, offerVars, send_sessions, send_cancelled, progress,
                 receive_sessions, rsess, pull, error_flag, part, final,
                 complete_frame, cancelVars, faults, ui_R, ui_S>>

\* SendSession::handle_chunk_request
handle_chunk_request(session_id, key, file_id, chunk_index) ==
  IF session_id \in send_cancelled THEN HandlerErr
  ELSE IF \A k \in 1..Len(files) : files[k].file_id # file_id THEN HandlerErr
  ELSE LET file == files[CHOOSE k \in 1..Len(files) : files[k].file_id = file_id]
           plaintext == read_chunk(file, chunk_index)
       IN IF plaintext = ReadErr THEN HandlerErr
          ELSE [kind |-> "Chunk",
                data |-> encrypt_chunk(key, session_id, file_id, chunk_index, plaintext),
                is_last |-> chunk_index + 1 >= calc_total_chunks(file.size)]

\* The response S sends to the ChunkRequest of chunk task i: the chunk, or an
\* Ack when the session is unknown or handle_chunk_request fails.
ChunkResponse(i) ==
  LET r == IF rsess.session_id \in send_sessions
           THEN handle_chunk_request(rsess.session_id, offer_result["S"].key,
                                     CurFile.file_id, i)
           ELSE HandlerErr
  IN IF r = HandlerErr THEN Ack ELSE r

\* SendSession::handle_chunk_request, once the chunk is encrypted: the tracker
\* after add_bytes and update_file_chunk with the plaintext length.
ProgressAfter(i) ==
  IF ChunkResponse(i).kind = "Chunk"
  THEN LET len == ChunkResponse(i).data.plaintext.len
       IN update_file_chunk(add_bytes(progress, len), CurFile.file_id, len)
  ELSE progress

\* The event loop of S dispatches the ChunkRequest of chunk task i and the
\* task it spawns sends the response: the chunk, or an Ack when the session
\* is unknown or handle_chunk_request fails.
DispatchChunkRequest(i) ==
  /\ i \in DOMAIN tasks
  /\ tasks[i].pc = "req"
  /\ rsess.peer_id = "S"
  /\ tasks' = [tasks EXCEPT ![i].pc = "resp", ![i].resp = ChunkResponse(i)]
  /\ progress' = ProgressAfter(i)
  /\ UNCHANGED <<pairVars, files, offerVars, send_sessions, send_cancelled,
                 receive_sessions, rsess, pull, error_flag, part, final,
                 complete_frame, cancelVars, faults, ui_R, ui_S>>

\* The ChunkRequest of chunk task i, or its response, is lost: send_request
\* returns an error.
ChunkRequestFails(i) ==
  /\ i \in DOMAIN tasks
  /\ tasks[i].pc \in {"req", "resp"}
  /\ tasks[i].resp # NetworkError
  /\ faults < MaxFaults
  /\ faults' = faults + 1
  /\ tasks' = [tasks EXCEPT ![i].pc = "resp", ![i].resp = NetworkError]
  /\ UNCHANGED <<pairVars, files, offerVars, send_sessions, send_cancelled, progress,
                 receive_sessions, rsess, pull, error_flag, part, final,
                 complete_frame, cancelVars, ui_R, ui_S>>

attempts_left_always(attempt) == TRUE

\* The Chunk response to chunk task i reaches R with altered bytes.
ChunkTampered(i) ==
  /\ i \in DOMAIN tasks
  /\ tasks[i].pc = "resp"
  /\ tasks[i].resp.kind = "Chunk"
  /\ tasks[i].resp.data.key # "tampered"
  /\ faults < MaxFaults
  /\ faults' = faults + 1
  /\ tasks' = [tasks EXCEPT ![i].resp.data.key = "tampered"]
  /\ UNCHANGED <<pairVars, files, offerVars, send_sessions, send_cancelled, progress,
                 receive_sessions, rsess, pull, error_flag, part, final,
                 complete_frame, cancelVars, ui_R, ui_S>>

\* pull_single_chunk's `for attempt in 0..MAX_CHUNK_RETRIES` has another turn.
attempts_left(attempt) == attempt + 1 < MAX_CHUNK_RETRIES

\* 1 << n
RECURSIVE ShiftLeft(_)
ShiftLeft(n) == IF n = 0 THEN 1 ELSE 2 * ShiftLeft(n - 1)

\* The sleep of pull_single_chunk before attempt `attempt` (> 0), in ms.
retry_delay(attempt) ==
  LET delay_ms == RETRY_DELAY_BASE_MS * ShiftLeft(attempt - 1)
  IN IF delay_ms < MAX_RETRY_DELAY_MS THEN delay_ms ELSE MAX_RETRY_DELAY_MS

\* pull_single_chunk receives the answer to attempt `attempt` of chunk i.
\* A Chunk is decrypted and written to the .part file: the task ends, with an
\* error if decryption or the write fails. Any other answer and a network
\* error are remembered; after the last attempt the task fails, otherwise
\* the next turn of the loop checks the cancel flag and starts the backoff.
pull_single_chunk_answer(i, resp) ==
  /\ LET t == [tasks[i] EXCEPT !.resp = resp]
         f == CurFile
     IN
       IF t.resp.kind = "Chunk"
       THEN LET plaintext == decrypt_chunk(rsess.key, rsess.session_id, f.file_id, i, t.resp.data)
            IN IF plaintext = DecryptionFailed \/ part[pull.file] = NoFile
               THEN /\ TaskFailed(i, IF plaintext = DecryptionFailed
                                      THEN "DecryptionFailed" ELSE "WriteFailed")
                    /\ part' = part
               ELSE /\ part' = [part EXCEPT ![pull.file] =
                          write_chunk_at_offset(part[pull.file], i * CHUNK_SIZE, plaintext)]
                    /\ tasks' = [tasks EXCEPT ![i].pc = "done", ![i].resp = NoResp]
                    /\ UNCHANGED <<error_flag, rsess>>
       ELSE IF ~attempts_left(t.attempt)
       THEN TaskFailed(i, "Exhausted") /\ part' = part
       ELSE IF rsess.cancelled
       THEN TaskFailed(i, "Cancelled") /\ part' = part
       ELSE /\ tasks' = [tasks EXCEPT ![i].pc = "sleep", ![i].attempt = t.attempt + 1,
                                      ![i].resp = NoResp,
                                      ![i].delays = Append(@, retry_delay(t.attempt + 1))]
            /\ UNCHANGED <<error_flag, rsess, part>>
  /\ UNCHANGED <<pairVars, files, offerVars, send_sessions, send_cancelled,
                 receive_sessions, pull, final, complete_frame, cancelVars,
                 faults, ui_R, ui_S>>

\* The answer to the ChunkRequest of chunk task i arrives at R.
chunk_task_response(i) ==
  /\ i \in DOMAIN tasks
  /\ tasks[i].pc = "resp"
  /\ pull_single_chunk_answer(i, tasks[i].resp)
  /\ UNCHANGED progress

\* The ChunkRequest of chunk task i is dispatched on S and its answer is
\* handled on R, as one step.
ChunkRoundTrip(i) ==
  /\ i \in DOMAIN tasks
  /\ tasks[i].pc = "req"
  /\ rsess.peer_id = "S"
  /\ pull_single_chunk_answer(i, ChunkResponse(i))
  /\ progress' = ProgressAfter(i)

\* The backoff sleep of chunk task i ends and the next ChunkRequest is sent.
chunk_task_wake(i) ==
  /\ i \in DOMAIN tasks
  /\ tasks[i].pc = "sleep"
  /\ tasks' = [tasks EXCEPT ![i].pc = "req", ![i].sent = tasks[i].sent + 1]
  /\ UNCHANGED <<pairVars, files, offerVars, send_sessions, send_cancelled, progress,
                 receive_sessions, rsess, pull, error_flag, part, final,
                 complete_frame, cancelVars, faults, ui_R, ui_S>>

\* pull_file_chunks has joined every chunk task. With an error recorded,
\* the error is taken out of the slot and run_transfer removes the .part
\* file, emits transfer-failed with that error and returns it; otherwise it
\* goes on to the checksum.
pull_file_chunks_join ==
  /\ pull.pc = "join"
  /\ \A i \in DOMAIN tasks : tasks[i].pc \in {"none", "done"}
  /\ IF error_flag # "none"
     THEN /\ part' = [part EXCEPT ![pull.file] = NoFile]
          /\ ui_R' = Append(ui_R, Event("transfer-failed", rsess.session_id, "receive"))
          /\ pull' = [pull EXCEPT !.pc = "finished", !.result = "Err",
                                  !.error = error_flag]
          /\ error_flag' = "none"
     ELSE /\ pull' = [pull EXCEPT !.pc = "verify"]
          /\ UNCHANGED <<part, ui_R, error_flag>>
  /\ UNCHANGED <<pairVars, files, offerVars, send_sessions, send_cancelled, progress,
                 receive_sessions, rsess, tasks, final, complete_frame,
                 cancelVars, faults, ui_S>>

\* run_transfer verifies the checksum of the .part file: a file that cannot
\* be opened returns the I/O error through `?`; a mismatch removes the .part
\* file, emits transfer-failed and returns an error.
run_transfer_verify ==
  /\ pull.pc = "verify"
  /\ IF part[pull.file] = NoFile
     THEN /\ pull' = [pull EXCEPT !.pc = "finished", !.result = "Err"]
          /\ UNCHANGED <<part, ui_R>>
     ELSE IF verify_checksum(part[pull.file], CurFile.checksum)
     THEN /\ pull' = [pull EXCEPT !.pc = "rename"]
          /\ UNCHANGED <<part, ui_R>>
     ELSE /\ part' = [part EXCEPT ![pull.file] = NoFile]
          /\ ui_R' = Append(ui_R, Event("transfer-failed", rsess.session_id, "receive"))
          /\ pull' = [pull EXCEPT !.pc = "finished", !.result = "Err"]
  /\ UNCHANGED <<pairVars, files, offerVars, send_sessions, send_cancelled, progress,
                 receive_sessions, rsess, error_flag, tasks, final,
                 complete_frame, cancelVars, faults, ui_S>>

\* run_transfer renames the .part file to the final path and goes to the
\* next file; a missing .part file returns the I/O error through `?`.
run_transfer_rename ==
  /\ pull.pc = "rename"
  /\ IF part[pull.file] = NoFile
     THEN /\ pull' = [pull EXCEPT !.pc = "finished", !.result = "Err"]
          /\ UNCHANGED <<part, final>>
     ELSE /\ final' = [final EXCEPT ![pull.file] = part[pull.file]]
          /\ part' = [part EXCEPT ![pull.file] = NoFile]
          /\ pull' = [pull EXCEPT !.pc = "top", !.file = pull.file + 1]
  /\ UNCHANGED <<pairVars, files, offerVars, send_sessions, send_cancelled, progress,
                 receive_sessions, rsess, error_flag, tasks, complete_frame,
                 cancelVars, faults, ui_R, ui_S>>

\* The event loop of S dispatches Complete: the send session is removed, an
\* Ack is sent and transfer-complete is emitted on S.
DispatchComplete ==
  /\ complete_frame = "sent"
  /\ rsess.peer_id = "S"
  /\ send_sessions' = remove(send_sessions, rsess.session_id)
  /\ ui_S' = Append(ui_S, Event("transfer-complete", rsess.session_id, "send"))
  /\ complete_frame' = "acked"
  /\ UNCHANGED <<pairVars, files, offerVars, send_cancelled, progress, receive_sessions, rsess,
                 pull, error_flag, tasks, part, final, cancelVars, faults, ui_R>>

\* The Complete request is lost.
CompleteFails ==
  /\ complete_frame = "sent"
  /\ faults < MaxFaults
  /\ faults' = faults + 1
  /\ complete_frame' = "lost"
  /\ UNCHANGED <<pairVars, files, offerVars, send_sessions, send_cancelled, progress,
                 receive_sessions, rsess, pull, error_flag, tasks, part, final,
                 cancelVars, ui_R, ui_S>>

\* run_transfer after the Complete request returned, whatever it returned:
\* transfer-complete is emitted and Ok is returned.
run_transfer_complete ==
  /\ pull.pc = "complete"
  /\ complete_frame \in {"acked", "lost"}
  /\ ui_R' = Append(ui_R, Event("transfer-complete", rsess.session_id, "receive"))
  /\ pull' = [pull EXCEPT !.pc = "finished", !.result = "Ok"]
  /\ UNCHANGED <<pairVars, files, offerVars, send_sessions, send_cancelled, progress,
                 receive_sessions, rsess, error_flag, tasks, part, final,
                 complete_frame, cancelVars, faults, ui_S>>

\* start_pulling after run_transfer returned: on_finish removes the session
\* from receive_sessions.
on_finish ==
  /\ pull.pc = "finished"
  /\ receive_sessions' = remove(receive_sessions, rsess.session_id)
  /\ pull' = [pull EXCEPT !.pc = "done"]
  /\ UNCHANGED <<pairVars, files, offerVars, send_sessions, send_cancelled, progress, rsess,
                 error_flag, tasks, part, final, complete_frame, cancelVars,
                 faults, ui_R, ui_S>>

(***************************************************************************)
(* cancel_receive (transfer/offer.rs)                                      *)
(***************************************************************************)
\* cancel_receive up to the await in send_cancel: an unknown session id is an
\* error; otherwise the session is removed from receive_sessions, its cancel
\* token is set and the Cancel request is sent.
cancel_receive(session_id) ==
  /\ cr.pc = "idle"
  /\ IF session_id \notin receive_sessions
     THEN /\ cr' = [cr EXCEPT !.pc = "done", !.session_id = session_id, !.result = "Err"]
          /\ UNCHANGED <<receive_sessions, rsess, cancel_frame>>
     ELSE /\ receive_sessions' = remove(receive_sessions, session_id)
          /\ rsess' = [rsess EXCEPT !.cancelled = TRUE]
          /\ cancel_frame' = [state |-> "sent", peer_id |-> rsess.peer_id,
                              session_id |-> session_id]
          /\ cr' = [cr EXCEPT !.pc = "await", !.session_id = session_id,
                              !.at = pull.pc,
                              !.had = {k \in FileIdx : final[k] # NoFile}]
  /\ UNCHANGED <<pairVars, files, offerVars, send_sessions, send_cancelled, progress, pull,
                 error_flag, tasks, part, final, complete_frame, faults,
                 ui_R, ui_S>>

\* The event loop of S dispatches Cancel: a send session with that id is
\* cancelled and removed, an Ack is sent, transfer-failed is emitted on S.
DispatchCancel ==
  /\ cancel_frame.state = "sent"
  /\ cancel_frame.peer_id = "S"
  /\ send_cancelled' = IF cancel_frame.session_id \in send_sessions
                       THEN send_cancelled \cup {cancel_frame.session_id}
                       ELSE send_cancelled
  /\ send_sessions' = remove(send_sessions, cancel_frame.session_id)
  /\ ui_S' = Append(ui_S, Event("transfer-failed", cancel_frame.session_id, "unknown"))
  /\ cancel_frame' = [cancel_frame EXCEPT !.state = "acked"]
  /\ UNCHANGED <<pairVars, files, offerVars, progress, receive_sessions, rsess, pull,
                 error_flag, tasks, part, final, complete_frame, cr, faults, ui_R>>

\* cancel_send on S: an unknown session id is an error; otherwise the session
\* is removed from send_sessions and its cancel token is set. Nothing is sent
\* to the receiver.
cancel_send(session_id) ==
  /\ session_id \in send_sessions
  /\ send_sessions' = remove(send_sessions, session_id)
  /\ send_cancelled' = send_cancelled \cup {session_id}
  /\ UNCHANGED <<pairVars, files, offerVars, progress, receive_sessions, rsess, pull,
                 error_flag, tasks, part, final, complete_frame, cancelVars, faults,
                 ui_R, ui_S>>

\* The Cancel request is lost.
CancelFails ==
  /\ cancel_frame.state = "sent"
  /\ faults < MaxFaults
  /\ faults' = faults + 1
  /\ cancel_frame' = [cancel_frame EXCEPT !.state = "lost"]
  /\ UNCHANGED <<pairVars, files, offerVars, send_sessions, send_cancelled, progress,
                 receive_sessions, rsess, pull, error_flag, tasks, part, final,
                 complete_frame, cr, ui_R, ui_S>>

\* cancel_receive after send_cancel returned, whatever it returned:
\* cleanup_part_files starts.
cancel_receive_sent ==
  /\ cr.pc = "await"
  /\ cancel_frame.state \in {"acked", "lost"}
  /\ cr' = [cr EXCEPT !.pc = "cleanup", !.i = 1]
  /\ UNCHANGED <<pairVars, files, offerVars, send_sessions, send_cancelled, progress,
                 receive_sessions, rsess, pull, error_flag, tasks, part, final,
                 complete_frame, cancel_frame, faults, ui_R, ui_S>>

\* cleanup_part_files removes the .part file of the next file of the session;
\* after the last one cancel_receive returns Ok.
cleanup_part_files ==
  /\ cr.pc = "cleanup"
  /\ part' = [part EXCEPT ![cr.i] = NoFile]
  /\ cr' = IF cr.i = Len(rsess.files)
           THEN [cr EXCEPT !.pc = "done", !.result = "Ok"]
           ELSE [cr EXCEPT !.i = cr.i + 1]
  /\ UNCHANGED <<pairVars, files, offerVars, send_sessions, send_cancelled, progress,
                 receive_sessions, rsess, pull, error_flag, tasks, final,
                 complete_frame, cancel_frame, faults, ui_R, ui_S>>

(***************************************************************************)
(* The transfer between S and R, with cancellation and network errors      *)
(***************************************************************************)
Init == PairVarsInit /\ XferInit

ChunkIdx == 0..1

Next ==
  \/ \E p \in Offerers : send_offer(p)
  \/ \E p \in Offerers : DispatchOffer(p)
  \/ \E sid \in Sessions : accept_and_start_receive(sid)
  \/ \E sid \in Sessions : reject_and_respond(sid)
  \/ OfferResultWithoutKey
  \/ send_offer_return
  \/ run_transfer_top
  \/ run_transfer_create
  \/ pull_file_chunks_spawn
  \/ pull_file_chunks_break
  \/ \E i \in ChunkIdx : chunk_task_start(i)
  \/ \E i \in ChunkIdx : DispatchChunkRequest(i)
  \/ \E i \in ChunkIdx : ChunkRequestFails(i)
  \/ \E i \in ChunkIdx : ChunkTampered(i)
  \/ \E i \in ChunkIdx : chunk_task_response(i)
  \/ \E i \in ChunkIdx : chunk_task_wake(i)
  \/ pull_file_chunks_join
  \/ run_transfer_verify
  \/ run_transfer_rename
  \/ DispatchComplete
  \/ CompleteFails
  \/ run_transfer_complete
  \/ on_finish
  \/ \E sid \in Sessions : cancel_receive(sid)
  \/ \E sid \in Sessions : cancel_send(sid)
  \/ DispatchCancel
  \/ CancelFails
  \/ cancel_receive_sent
  \/ cleanup_part_files

Spec == Init /\ [][Next]_vars

(***************************************************************************)
(* Claims on the pairing manager                                           *)
(***************************************************************************)
\* The step in which invocation c leaves the verify-and-consume section.
VerifyStep(c) == calls[c].pc = "idle" /\ calls'[c].pc # "idle"

\* Invocation c took a code into the section and passed it.
PassedCode(c) ==
  /\ calls[c].code # "none"
  /\ calls[c].result \in {"pass", "OkSome", "OkNone", "NetworkError"}

\* C1: pairing codes are single-use. Once a handle_pairing_request with
\* method Code and response Success has passed verification, the active code
\* is cleared, and until a new code is generated every later Code/Success
\* invocation with the same code fails with InvalidCode.
C1_SingleUse ==
  /\ [](used # "none" => active_code = NoCode)
  /\ [][\A c \in CallIds :
          (VerifyStep(c) /\ used # "none" /\ calls'[c].code = used)
            => (calls'[c].result = "InvalidCode" /\ calls'[c].pc = "done")]_vars

\* A code was consumed by one invocation and another invocation that carried
\* the same code afterwards was turned down with InvalidCode.
C1_Witness ==
  /\ used # "none"
  /\ \E c1, c2 \in CallIds :
       /\ c1 # c2
       /\ PassedCode(c1) /\ calls[c1].code = used
       /\ calls[c2].code = used /\ calls[c2].result = "InvalidCode"

\* C2: of two handle_pairing_request invocations that carry Success and the
\* same active code, whatever their interleaving, one passes verification
\* and consumes the code and the other fails with InvalidCode: while a
\* passed invocation is still awaiting send_response, a second one with the
\* same code is refused, and the number of invocations that passed a code
\* never exceeds the number of codes generated.
C2_OnePerCode ==
  /\ [](Cardinality({c \in CallIds : PassedCode(c)}) <= gens_done)
  /\ [][\A c1, c2 \in CallIds :
          (/\ c1 # c2
           /\ calls[c1].pc = "respond" /\ PassedCode(c1)
           /\ used # "none" /\ used = calls[c1].code
           /\ VerifyStep(c2) /\ calls'[c2].code = calls[c1].code)
            => (/\ calls'[c2].result = "InvalidCode"
                /\ active_code' = active_code
                /\ paired_devices' = paired_devices)]_vars

\* Two invocations overlap: the first has passed with the code and is still
\* awaiting send_response when the second, with the same code, has failed.
C2_Witness ==
  \E c1, c2 \in CallIds :
    /\ c1 # c2
    /\ calls[c1].pc = "respond" /\ PassedCode(c1)
    /\ used # "none" /\ used = calls[c1].code
    /\ calls[c2].code = calls[c1].code /\ calls[c2].result = "InvalidCode"

\* A Code/Success invocation enters the section while the active code's
\* expires_at has passed.
LateVerifyStep(c) ==
  /\ VerifyStep(c)
  /\ calls'[c].code # "none"
  /\ active_code # NoCode
  /\ now > active_code.expires_at

\* C3 as stated: after the active code's expires_at has passed, every
\* Code/Success invocation fails with ExpiredCode and pairs nobody.
C3_AnyAttemptExpired ==
  [][\A c \in CallIds :
       LateVerifyStep(c)
         => (calls'[c].result = "ExpiredCode" /\ paired_devices' = paired_devices)]_vars

\* C3 as amended: after the active code's expires_at has passed, a
\* Code/Success invocation carrying the active code fails with ExpiredCode,
\* one carrying any other code fails with InvalidCode, and in both cases the
\* invocation ends there: nobody is paired and the code stays as it was.
C3_ExpiredOrInvalid ==
  [][\A c \in CallIds :
       LateVerifyStep(c)
         => (/\ calls'[c].result =
                  IF calls'[c].code = active_code.code THEN "ExpiredCode" ELSE "InvalidCode"
             /\ calls'[c].pc = "done"
             /\ paired_devices' = paired_devices
             /\ active_code' = active_code)]_vars

\* An invocation carrying the active code was turned down with ExpiredCode.
C3_Witness ==
  \E c \in CallIds :
    /\ calls[c].result = "ExpiredCode"
    /\ active_code # NoCode /\ active_code.code = calls[c].code
    /\ now > active_code.expires_at

(***************************************************************************)
(* Claims on offers and on the cancellation of a receive session           *)
(***************************************************************************)
\* The receive session exists and its cancel token is set.
Cancelled == rsess # NoSession /\ rsess.cancelled

\* An event `name` of session `session_id` was emitted on R.
EmittedR(name, session_id) ==
  \E k \in 1..Len(ui_R) : ui_R[k].name = name /\ ui_R[k].session_id = session_id

\* An event `name` of session `session_id` was emitted on S.
EmittedS(name, session_id) ==
  \E k \in 1..Len(ui_S) : ui_S[k].name = name /\ ui_S[k].session_id = session_id

\* C4: an inbound Offer from a peer that is not in the paired set is answered
\* automatically with OfferResult{accepted:false, key:None, reason
\* not-paired}; no pending offer is cached for it, no transfer-offer event is
\* emitted for it, and no receive session is ever created from it.
C4_UnpairedOfferRefused ==
  \A p \in Offerers :
    paired_devices[p] = NoDevice =>
      /\ offer[p] \in {"none", "sent", "answered"}
      /\ offer[p] = "answered" =>
           offer_result[p] = [accepted |-> FALSE, key |-> NoKey, reason |-> "not-paired"]
      /\ pending[SessionOf(p)] = NoOffer
      /\ ~EmittedR("transfer-offer", SessionOf(p))
      /\ SessionOf(p) \notin receive_sessions
      /\ rsess.session_id # SessionOf(p)

\* The Offer of the unpaired peer U was dispatched and answered while the
\* Offer of the paired peer S was cached.
C4_Witness ==
  /\ paired_devices["U"] = NoDevice
  /\ offer["U"] = "answered"
  /\ pending[SessionOf("S")] # NoOffer

\* C5: when cancel_receive(s) returns Ok for a registered receive session s,
\* the session is absent from receive_sessions and a Transfer::Cancel{s}
\* frame has been sent to the session's peer; cancel_receive on an unknown
\* session id fails, sends nothing and changes nothing.
C5_CancelReceive ==
  /\ [](cr.result = "Ok" =>
          /\ cr.session_id \notin receive_sessions
          /\ cancel_frame # NoFrame
          /\ cancel_frame.session_id = cr.session_id
          /\ cancel_frame.peer_id = rsess.peer_id
          /\ rsess.session_id = cr.session_id)
  /\ [](cr.result = "Err" => cancel_frame = NoFrame)
  /\ [][\A sid \in Sessions :
          (cr.pc = "idle" /\ cr'.pc # "idle" /\ cr'.session_id = sid
             /\ sid \notin receive_sessions)
            => (cr'.result = "Err" /\ cancel_frame' = NoFrame
                /\ receive_sessions' = receive_sessions /\ rsess' = rsess)]_vars

\* cancel_receive returned Ok for a session whose Cancel request was lost.
C5_Witness ==
  /\ cr.pc = "done" /\ cr.result = "Ok"
  /\ cancel_frame.state = "lost"
  /\ cr.session_id \notin receive_sessions

\* C6 as stated: once the cancel token of a receive session is set, the
\* session sends no further ChunkRequest.
C6_NoRequestAfterCancel ==
  [][Cancelled =>
       \A i \in DOMAIN tasks' :
         tasks'[i].pc = "req" => (i \in DOMAIN tasks /\ tasks[i].pc = "req")]_vars

\* C7 as stated: after cancel_receive(s) has returned and the pull task of s
\* has ended, no .part file of the session exists and no file of the session
\* exists at its final path unless it was there when the cancel was issued.
C7_NothingLeftAfterCancel ==
  (cr.pc = "done" /\ cr.result = "Ok" /\ pull.pc = "done") =>
    \A k \in 1..Len(rsess.files) :
      /\ part[k] = NoFile
      /\ final[k] # NoFile => k \in cr.had

\* The pull task was in its loop over the files when cancel_receive was called.
CancelledWhileRunning ==
  /\ cr.result # "Err"
  /\ cr.at \in {"top", "create", "spawn", "join", "verify", "rename"}

\* C8 as stated: after cancel_receive(s) on a running receive session a
\* transfer-failed event of s is emitted on R. Events of s are emitted by the
\* pull task only, so once the pull task has ended the event must be there.
C8_FailedAfterCancel ==
  (CancelledWhileRunning /\ pull.pc = "done") =>
    EmittedR("transfer-failed", cr.session_id)

(***************************************************************************)
(* The happy path: S offers, R accepts, nobody cancels, nothing is lost    *)
(***************************************************************************)
HappyNext ==
  \/ send_offer("S")
  \/ DispatchOffer("S")
  \/ accept_and_start_receive(SessionOf("S"))
  \/ send_offer_return
  \/ run_transfer_top
  \/ run_transfer_create
  \/ pull_file_chunks_spawn
  \/ \E i \in ChunkIdx : chunk_task_start(i)
  \/ \E i \in ChunkIdx : DispatchChunkRequest(i)
  \/ \E i \in ChunkIdx : chunk_task_response(i)
  \/ \E i \in ChunkIdx : chunk_task_wake(i)
  \/ pull_file_chunks_join
  \/ run_transfer_verify
  \/ run_transfer_rename
  \/ DispatchComplete
  \/ run_transfer_complete
  \/ on_finish

\* Every task of both nodes keeps being scheduled: a step that stays
\* possible is eventually taken.
HappySpec == Init /\ [][HappyNext]_vars /\ WF_vars(HappyNext)

\* The transfer of S's offer has completed on both sides.
HappyDone ==
  /\ EmittedR("transfer-complete", SessionOf("S"))
  /\ \A k \in 1..Len(files) :
       /\ final[k] = Content(files[k].size, files[k].data)
       /\ part[k] = NoFile
  /\ EmittedS("transfer-complete", SessionOf("S"))
  /\ SessionOf("S") \notin send_sessions

\* C9 as stated: on the happy path the receiver eventually emits
\* transfer-complete, every offered file is at its final path with the
\* sender's content and size, no .part file remains, and the sender has
\* emitted transfer-complete and dropped the send session.
C9_HappyPathCompletes == <>HappyDone

(***************************************************************************)
(* A session with a file of more chunks than the semaphore has permits     *)
(***************************************************************************)
F_big == MkFile(4, BigChunks * CHUNK_SIZE, [k \in 1..BigChunks |-> 7])
Files10 == <<F_big, F_small>>
ChunkIdx10 == 0..(BigChunks - 1)

\* S's offer of Files10 was accepted with a key, S has registered the send
\* session and the pull task of R starts.
Init10 ==
  /\ PairVarsInit
  /\ files = Files10
  /\ offer = [p \in Offerers |-> IF p = "S" THEN "answered" ELSE "none"]
  /\ offer_result = [p \in Offerers |->
        IF p = "S" THEN [accepted |-> TRUE, key |-> generate_key, reason |-> "none"]
        ELSE NoResult]
  /\ start_send = "accepted"
  /\ pending = [sid \in Sessions |-> NoOffer]
  /\ send_sessions = {SessionOf("S")}
  /\ send_cancelled = {}
  /\ progress = ProgressTracker_new(Files10)
  /\ receive_sessions = {SessionOf("S")}
  /\ rsess = [session_id |-> SessionOf("S"), peer_id |-> "S", files |-> Files10,
              key |-> generate_key, cancelled |-> FALSE]
  /\ pull = [NoPull EXCEPT !.pc = "top", !.file = 1]
  /\ error_flag = "none"
  /\ tasks = <<>>
  /\ part = [i \in FileIdx |-> NoFile]
  /\ final = [i \in FileIdx |-> NoFile]
  /\ complete_frame = "none"
  /\ cr = NoCancelCall
  /\ cancel_frame = NoFrame
  /\ faults = 0
  /\ ui_R = <<Event("transfer-offer", SessionOf("S"), "receive")>>
  /\ ui_S = <<>>

Next10 ==
  \/ run_transfer_top
  \/ run_transfer_create
  \/ pull_file_chunks_spawn
  \/ \E i \in ChunkIdx10 : chunk_task_start(i)
  \/ \E i \in ChunkIdx10 : ChunkRoundTrip(i)
  \/ pull_file_chunks_join
  \/ run_transfer_verify
  \/ run_transfer_rename
  \/ DispatchComplete
  \/ run_transfer_complete
  \/ on_finish

Spec10 == Init10 /\ [][Next10]_vars

\* C10: in every reachable state at most MAX_CONCURRENT_CHUNKS = 8
\* ChunkRequests of the receive session are in flight (sent and not yet
\* answered), and none is in flight while the pull task is between two files.
C10_AtMostEightInFlight ==
  /\ Cardinality(InFlight) <= 8
  /\ pull.pc \in {"top", "create", "verify", "rename"} => InFlight = {}

\* Eight ChunkRequests are in flight and the ninth chunk waits for a permit.
C10_Witness ==
  /\ Cardinality(InFlight) = 8
  /\ pull.pc = "spawn"
  /\ pull.next = 8
  /\ tasks[8].pc = "none"

(***************************************************************************)
(* Claims on retries                                                       *)
(***************************************************************************)
\* Chunk task i has returned an error of kind `why`.
FailedWith(i, why) == tasks[i].pc = "done" /\ tasks[i].resp = Failure(why)

\* C11: for each chunk of each file the receiver sends at most 3
\* ChunkRequests; once all attempts of a chunk have failed (network error or
\* an answer that is not a Chunk) the session fails: the file is never
\* finalised, the pull task cannot go past the join of that file, and it does
\* not end without having emitted transfer-failed and returning an error.
C11_ThreeAttemptsThenFail ==
  /\ \A i \in DOMAIN tasks : tasks[i].sent <= 3
  /\ \A i \in DOMAIN tasks :
       FailedWith(i, "Exhausted") =>
         /\ tasks[i].sent = 3
         /\ error_flag # "none" \/ pull.pc \in {"finished", "done"}
         /\ pull.pc \in {"spawn", "join", "finished", "done"}
         /\ final[pull.file] = NoFile
         /\ pull.pc \in {"finished", "done"} =>
              /\ pull.result = "Err"
              /\ EmittedR("transfer-failed", rsess.session_id)
              /\ part[pull.file] = NoFile

\* A chunk was requested three times in vain and the pull task has ended
\* with transfer-failed.
C11_Witness ==
  /\ pull.pc = "done"
  /\ \E i \in DOMAIN tasks : FailedWith(i, "Exhausted") /\ tasks[i].sent = 3
  /\ EmittedR("transfer-failed", rsess.session_id)

\* C12 as stated: a chunk whose decryption fails is requested again while
\* attempts are left; the task does not fail and no error is recorded at
\* that point.
C12_DecryptFailureRetried ==
  [][\A i \in DOMAIN tasks :
       (/\ tasks[i].pc = "resp"
        /\ tasks[i].resp.kind = "Chunk"
        /\ decrypt_chunk(rsess.key, rsess.session_id, CurFile.file_id, i,
                         tasks[i].resp.data) = DecryptionFailed
        /\ attempts_left(tasks[i].attempt)
        /\ ~rsess.cancelled
        /\ i \in DOMAIN tasks'
        /\ tasks'[i] # tasks[i])
         => (tasks'[i].pc = "sleep" /\ error_flag' = error_flag)]_vars

\* C13: the progress tracker of a send session never decreases
\* transferred_bytes, never counts more bytes than total_bytes and never
\* counts more completed files than total_files, also when a chunk is served
\* more than once.
C13_ProgressWithinTotals ==
  /\ [](progress.transferred_bytes <= progress.total_bytes)
  /\ [](progress.completed_files <= progress.total_files)
  /\ [][progress'.transferred_bytes >= progress.transferred_bytes]_vars

(***************************************************************************)
(* Scheduling: the steps taken by spawned tasks and by the event loops     *)
(***************************************************************************)
\* The steps the runtime schedules by itself: the event loops of both nodes,
\* the pull task, the chunk tasks and the continuations of awaited requests.
\* Commands invoked by the user and losses in the network are not among them.
ProgramStep ==
  \/ \E p \in Offerers : DispatchOffer(p)
  \/ send_offer_return
  \/ run_transfer_top
  \/ run_transfer_create
  \/ pull_file_chunks_spawn
  \/ pull_file_chunks_break
  \/ \E i \in ChunkIdx : chunk_task_start(i)
  \/ \E i \in ChunkIdx : DispatchChunkRequest(i)
  \/ \E i \in ChunkIdx : chunk_task_response(i)
  \/ \E i \in ChunkIdx : chunk_task_wake(i)
  \/ pull_file_chunks_join
  \/ run_transfer_verify
  \/ run_transfer_rename
  \/ DispatchComplete
  \/ run_transfer_complete
  \/ on_finish
  \/ DispatchCancel
  \/ cancel_receive_sent
  \/ cleanup_part_files

\* One transfer between the paired nodes S and R, with every command, loss
\* and alteration of Next that concerns it.
TransferNext ==
  \/ send_offer("S")
  \/ DispatchOffer("S")
  \/ accept_and_start_receive(SessionOf("S"))
  \/ reject_and_respond(SessionOf("S"))
  \/ send_offer_return
  \/ run_transfer_top
  \/ run_transfer_create
  \/ pull_file_chunks_spawn
  \/ pull_file_chunks_break
  \/ \E i \in ChunkIdx : chunk_task_start(i)
  \/ \E i \in ChunkIdx : DispatchChunkRequest(i)
  \/ \E i \in ChunkIdx : ChunkRequestFails(i)
  \/ \E i \in ChunkIdx : ChunkTampered(i)
  \/ \E i \in ChunkIdx : chunk_task_response(i)
  \/ \E i \in ChunkIdx : chunk_task_wake(i)
  \/ pull_file_chunks_join
  \/ run_transfer_verify
  \/ run_transfer_rename
  \/ DispatchComplete
  \/ CompleteFails
  \/ run_transfer_complete
  \/ on_finish
  \/ cancel_receive(SessionOf("S"))
  \/ cancel_send(SessionOf("S"))
  \/ DispatchCancel
  \/ CancelFails
  \/ cancel_receive_sent
  \/ cleanup_part_files

\* The transfer with every spawned task and both event loops kept running:
\* a scheduled step that stays possible is eventually taken.
FairSpec == Init /\ [][TransferNext]_vars /\ WF_vars(ProgramStep)

\* The receive session of R has ended: the pull task has returned and the
\* completion callback has run.
ReceiveEnded == rsess # NoSession /\ pull.pc = "done"

\* C14: whenever the receive session has ended (completed, cancelled or
\* failed), the send session with the same id is eventually removed from
\* send_sessions.
C14_SendSessionDropped ==
  ReceiveEnded ~> (rsess.session_id \notin send_sessions)

\* C15: every receive session inserted by accept_and_start_receive is
\* eventually removed from receive_sessions: with every network request
\* eventually returning, the pull task terminates and its completion
\* callback removes the session.
C15_ReceiveSessionRemoved ==
  (rsess # NoSession /\ rsess.session_id \in receive_sessions)
    ~> (pull.pc = "done" /\ rsess.session_id \notin receive_sessions)

\* The pull task has ended without any cancel_receive, and its completion
\* callback has taken the session out of receive_sessions.
C15_Witness ==
  /\ rsess # NoSession
  /\ pull.pc = "done"
  /\ cr = NoCancelCall
  /\ rsess.session_id \notin receive_sessions

\* S has dispatched an inbound Cancel for session s (it emits transfer-failed
\* whenever it does), or a cancel_send(s) has returned Ok.
CancelledAtSender(s) == EmittedS("transfer-failed", s) \/ s \in send_cancelled

\* C16: once S has dispatched an inbound Cancel{s} or cancel_send(s) has
\* returned, s is absent from send_sessions, and every ChunkRequest of s
\* dispatched afterwards is answered with an Ack, never with a Chunk.
C16_NoChunkAfterCancel ==
  /\ [](\A s \in Sessions : CancelledAtSender(s) => s \notin send_sessions)
  /\ [][\A i \in DOMAIN tasks :
          (/\ CancelledAtSender(rsess.session_id)
           /\ tasks[i].pc = "req"
           /\ i \in DOMAIN tasks'
           /\ tasks'[i].pc = "resp"
           /\ tasks'[i].resp # NetworkError)
          => tasks'[i].resp = Ack]_vars

\* C17: when send_offer has received OfferResult{accepted: true, key: None},
\* no send session exists and the result it reports is a rejection.
C17_KeylessAcceptIsRejection ==
  (/\ start_send \in {"accepted", "rejected"}
   /\ offer_result["S"].accepted
   /\ offer_result["S"].key = NoKey)
  => /\ SessionOf("S") \notin send_sessions
     /\ start_send = "rejected"

\* C18: when a pairing request was answered with Success and the response has
\* reached the requester, both nodes hold each other: R holds the requester
\* with the os_info of the request, and the requester holds R with the
\* os_info that get_device_info cached, or else with the placeholder derived
\* from R's peer id. A Refused response adds nothing on either side.
C18_BothSidesPaired ==
  /\ [](\A pid \in PendingIds :
          /\ requests[pid].result = "Success" =>
               /\ paired_devices[RequesterOf(pid)] = "os-" \o RequesterOf(pid)
               /\ initiator_paired[pid] \in {"os-R", unknown_from_peer_id("R")}
          /\ requests[pid].result = "Refused" =>
               /\ paired_devices[RequesterOf(pid)] = NoDevice
               /\ initiator_paired[pid] = NoDevice)
  /\ [][\A pid \in PendingIds :
          (requests[pid].pc = "cached" /\ requests'[pid].result = "Success") =>
             initiator_paired'[pid] = IF discovered_peers[pid] # NoDevice
                                      THEN discovered_peers[pid]
                                      ELSE unknown_from_peer_id("R")]_vars

\* A Code pairing was accepted, its response has reached the requester, and
\* the requester stored R with the os_info it had cached.
C18_Witness ==
  \E pid \in PendingIds :
    /\ requests[pid] = [pc |-> "done", result |-> "Success"]
    /\ used # "none"
    /\ paired_devices[RequesterOf(pid)] = "os-" \o RequesterOf(pid)
    /\ initiator_paired[pid] = "os-R"

\* C19: a node has at most one active pairing code. A successful
\* generate_code makes its code the active one, whatever was there before;
\* a Code/Success invocation that carries an earlier code fails with
\* InvalidCode, and one that carries the newest code, not yet consumed and
\* not expired, passes.
C19_OneActiveCode ==
  /\ [][gens_done' # gens_done =>
          /\ active_code' # NoCode
          /\ active_code'.code \notin earlier'
          /\ active_code # NoCode => active_code.code \in earlier' \cup {active_code'.code}]_vars
  /\ [][\A c \in CallIds :
          (VerifyStep(c) /\ calls'[c].code # "none") =>
             /\ calls'[c].code \in earlier => calls'[c].result = "InvalidCode"
             /\ (/\ active_code # NoCode
                 /\ calls'[c].code = active_code.code
                 /\ ~(now > active_code.expires_at)) => calls'[c].result = "pass"]_vars

\* A second code had replaced the first; an invocation carrying the second
\* passed, and a later one carrying the first was turned down with
\* InvalidCode.
C19_Witness ==
  /\ gens_done >= 2
  /\ used # "none"
  /\ \E c1, c2 \in CallIds :
       /\ c1 < c2
       /\ calls[c1].code = used /\ PassedCode(c1)
       /\ calls[c2].code \in earlier /\ calls[c2].result = "InvalidCode"

\* C20: no guard is held across a network suspension point: while a command
\* of a node awaits a round trip, the NetManagerState mutex of the node is
\* free, so a respond_pairing_request never waits for the request_pairing of
\* its own node to get its response or to time out.
C20_NoGuardAcrossAwait ==
  \A n \in Nodes :
    /\ (request_cmd[n] = "awaiting" \/ respond_cmd[n].pc = "sending") => net[n] = "free"
    /\ respond_cmd[n].pc = "locking" => net[n] # "request_pairing"

(***************************************************************************)
(* File sink (file_sink/mod.rs, file_sink/path_ops.rs)                     *)
(*                                                                         *)
(* One PartFile and the two paths it names.  A file is a sequence of      *)
(* cells of Cell bytes each; data lengths are multiples of Cell, so that  *)
(* a write can be split into partial writes and can be shorter or longer  *)
(* than a chunk.                                                           *)
(***************************************************************************)
MaxSinkChunks == 2

Cell == CHUNK_SIZE \div 2
SinkChunkIdx == 0..(MaxSinkChunks - 1)
SinkSizes == {k * Cell : k \in 0..(2 * MaxSinkChunks)}
DataLens == {0, Cell, CHUNK_SIZE, CHUNK_SIZE + Cell}

\* A path of the save directory: absent, or a file with its cells.
Absent == [exists |-> FALSE, cells |-> <<>>]
FileOf(cells) == [exists |-> TRUE, cells |-> cells]

\* A file some earlier transfer left at the final path.
OldFile == FileOf(<<9>>)

\* A write_chunk call: its data (len bytes, all equal to fill), the bytes
\* written so far and where the call stands.
NoWrite == [status |-> "none", len |-> 0, fill |-> 0, written |-> 0]

\* The data written for chunk chunk_index: distinct chunks carry distinct bytes.
FillOf(chunk_index) == chunk_index + 1

chunk_offset_zero(chunk_index) == 0

\* PartFile::write_chunk: offset = chunk_index as u64 * CHUNK_SIZE as u64
chunk_offset(chunk_index) == chunk_index * CHUNK_SIZE

\* pwrite(2) / seek_write: len bytes equal to fill are stored at offset; the
\* file grows (zero-filled) when the write ends past its end; no cursor is
\* read or moved.  A write of no bytes changes nothing.
pwrite(cells, offset, len, fill) ==
  LET first == (offset \div Cell) + 1
      last == (offset + len) \div Cell
      n == IF len > 0 /\ last > Len(cells) THEN last ELSE Len(cells)
  IN [k \in 1..n |-> IF k >= first /\ k <= last THEN fill
                     ELSE IF k <= Len(cells) THEN cells[k] ELSE 0]

\* path_ops::create_part_file: File::create makes an empty .part file (or
\* truncates the one that is there), set_len pre-allocates file_size bytes
\* when file_size > 0, and the handle is cached.  The save directory may
\* already hold a file at the final path.
create_part_file(file_size, old) ==
  /\ sink = NoSink
  /\ sink' = [handle |-> "open",
              size |-> file_size,
              part |-> FileOf([k \in 1..(file_size \div Cell) |-> 0]),
              final |-> old,
              inode |-> "part",
              writes |-> [i \in SinkChunkIdx |-> NoWrite],
              vf |-> "idle",
              checksum_ok |-> FALSE,
              expected |-> <<>>,
              result |-> "none",
              at_verify |-> <<>>,
              under_way |-> {},
              interleaved |-> FALSE]
  /\ UNCHANGED sinkRest

\* PartFile::write_chunk up to spawn_blocking: the handle is cloned out of
\* the mutex, or the call fails when close_write_handle has emptied it.
\* Empty data needs no write at all.
write_chunk(chunk_index, len) ==
  /\ sink.handle # "none"
  /\ sink.writes[chunk_index].status = "none"
  /\ sink' = [sink EXCEPT !.writes[chunk_index] =
        IF sink.handle = "closed"
        THEN [NoWrite EXCEPT !.status = "handle closed"]
        ELSE [status |-> IF len = 0 THEN "done" ELSE "writing",
              len |-> len, fill |-> FillOf(chunk_index), written |-> 0]]
  /\ UNCHANGED sinkRest

\* Another write_chunk call has stored a part of its data, not all of it.
OtherHalfWritten(chunk_index) ==
  \E j \in SinkChunkIdx \ {chunk_index} :
    sink.writes[j].status = "writing" /\ sink.writes[j].written > 0

write_position_restart(offset, written) == offset

\* write_all_at: where the next positioned write of the loop lands
\* (seek_write(&data[written..], offset + written as u64)).
write_position(offset, written) == offset + written

\* write_all_at: one positioned write of the loop stores the next n bytes
\* at offset + written.  The handle names the file itself, wherever a
\* rename has moved it and even after it was removed.
write_all_at(chunk_index, n) ==
  LET w == sink.writes[chunk_index]
      offset == chunk_offset(chunk_index)
      done == w.written + n = w.len
      w2 == [w EXCEPT !.written = w.written + n,
                      !.status = IF done THEN "done" ELSE "writing"]
      mixed == sink.interleaved \/ OtherHalfWritten(chunk_index)
  IN /\ sink.handle # "none"
     /\ w.status = "writing"
     /\ n > 0
     /\ w.written + n <= w.len
     /\ sink' =
          IF sink.inode = "part"
          THEN [sink EXCEPT !.writes[chunk_index] = w2, !.interleaved = mixed,
                  !.part = FileOf(pwrite(sink.part.cells, write_position(offset, w.written), n, w.fill))]
          ELSE IF sink.inode = "final"
          THEN [sink EXCEPT !.writes[chunk_index] = w2, !.interleaved = mixed,
                  !.final = FileOf(pwrite(sink.final.cells, write_position(offset, w.written), n, w.fill))]
          ELSE [sink EXCEPT !.writes[chunk_index] = w2, !.interleaved = mixed]
     /\ UNCHANGED sinkRest

\* BLAKE3 of a file of the sink.
SinkHash(cells) == Blake3(Content(Len(cells) * Cell, cells))

wrong_hash == <<"blake3", -1, <<>>>>

\* The file the sender hashed: declared size, chunk i filled with FillOf(i).
Intended(file_size) ==
  [k \in 1..(file_size \div Cell) |-> FillOf(((k - 1) * Cell) \div CHUNK_SIZE)]

\* The checksums a caller may pass to verify_and_finalize: the sender's, the
\* hash of what the .part file holds, and one that matches nothing.
HashChoices == {"sender", "written", "wrong"}
HashOf(choice) ==
  IF choice = "sender" THEN SinkHash(Intended(sink.size))
  ELSE IF choice = "written" THEN SinkHash(sink.part.cells)
  ELSE wrong_hash

verify_checksum_sync_any(cells, expected_hex) == TRUE

\* path_ops::verify_checksum_sync
verify_checksum_sync(cells, expected_hex) == SinkHash(cells) = expected_hex

\* PartFile::verify_and_finalize up to the checksum: close_write_handle,
\* then the .part file is opened and hashed (an error when it cannot be
\* opened).
verify_and_finalize_verify(choice) ==
  /\ sink.handle # "none"
  /\ sink.vf = "idle"
  /\ sink' =
       IF ~sink.part.exists
       THEN [sink EXCEPT !.handle = "closed", !.vf = "done", !.result = "Io",
                         !.expected = HashOf(choice)]
       ELSE [sink EXCEPT !.handle = "closed", !.vf = "verified",
                         !.expected = HashOf(choice),
                         !.at_verify = sink.part.cells,
                         !.under_way = {i \in SinkChunkIdx :
                                          sink.writes[i].status = "writing"},
                         !.checksum_ok =
                            verify_checksum_sync(sink.part.cells, HashOf(choice))]
  /\ UNCHANGED sinkRest

\* path_ops::verify_and_finalize after the checksum: a mismatch removes the
\* .part file and returns AppError::Transfer("文件校验失败"); a match renames
\* .part to the final path, replacing what is there.
verify_and_finalize_finish ==
  /\ sink.handle # "none"
  /\ sink.vf = "verified"
  /\ sink' =
       IF ~sink.checksum_ok
       THEN [sink EXCEPT !.vf = "done", !.part = Absent,
                         !.inode = IF sink.inode = "part" THEN "removed" ELSE @,
                         !.result = "Transfer: checksum mismatch"]
       ELSE [sink EXCEPT !.vf = "done", !.part = Absent, !.final = sink.part,
                         !.inode = IF sink.inode = "part" THEN "final" ELSE @,
                         !.result = "Ok"]
  /\ UNCHANGED sinkRest

SinkNext ==
  \/ \E file_size \in SinkSizes, old \in {Absent, OldFile} :
       create_part_file(file_size, old)
  \/ \E i \in SinkChunkIdx, len \in DataLens : write_chunk(i, len)
  \/ \E i \in SinkChunkIdx, k \in 1..3 : write_all_at(i, k * Cell)
  \/ \E choice \in HashChoices : verify_and_finalize_verify(choice)
  \/ verify_and_finalize_finish

\* The file sink alone: one PartFile, its writers and its finalisation.
SinkSpec == PairInit /\ [][SinkNext]_vars

\* The write_chunk calls that returned Ok.
Written == {i \in SinkChunkIdx : sink.writes[i].status = "done"}

\* No write_chunk call is under way.
NoWriteUnderWay == \A i \in SinkChunkIdx : sink.writes[i].status # "writing"

\* The orders in which the calls of `called` can run one after the other.
SerialOrders(called) ==
  {order \in [1..Cardinality(called) -> called] :
     \A a, b \in 1..Cardinality(called) : a # b => order[a] # order[b]}

\* The file left by running the write_chunk calls one after the other, each
\* to its end, in the given order.
RECURSIVE SerialWrite(_, _, _)
SerialWrite(cells, order, k) ==
  IF k > Len(order) THEN cells
  ELSE LET w == sink.writes[order[k]]
       IN SerialWrite(pwrite(cells, chunk_offset(order[k]), w.len, w.fill), order, k + 1)

\* The .part file as create_part_file left it.
Preallocated == [k \in 1..(sink.size \div Cell) |-> 0]

\* The .part file holds what every serial order of the calls would leave.
SameAsEverySerialOrder ==
  \A order \in SerialOrders(Written) :
    sink.part.cells = SerialWrite(Preallocated, order, 1)

\* C21 (as stated): every interleaving of write_chunk(i, data_i) calls over
\* pairwise distinct chunk indices leaves the bytes any serial order of the
\* calls leaves, whatever the data.
C21_AnyDataSameAsSerial ==
  (sink.handle # "none" /\ sink.part.exists /\ NoWriteUnderWay)
    => SameAsEverySerialOrder

\* C21: every interleaving of write_chunk(i, data_i) calls over pairwise
\* distinct chunk indices, each with at most CHUNK_SIZE bytes of data, leaves
\* the file bytes that any serial order of the calls leaves.
C21_InterleavedSameAsSerial ==
  (/\ sink.handle # "none"
   /\ sink.part.exists
   /\ NoWriteUnderWay
   /\ \A i \in Written : sink.writes[i].len <= CHUNK_SIZE)
    => SameAsEverySerialOrder

\* Three calls ran interleaved, two of them in two partial writes, and all
\* returned.
C21_Witness ==
  /\ sink.handle # "none"
  /\ sink.part.exists
  /\ sink.interleaved
  /\ Written = SinkChunkIdx
  /\ \A i \in Written : sink.writes[i].len <= CHUNK_SIZE
  /\ Cardinality({i \in Written : sink.writes[i].len = CHUNK_SIZE}) >= 2

\* The length a chunk of a file of file_size bytes has.
ChunkLenOf(file_size, chunk_index) ==
  LET rest == file_size - chunk_index * CHUNK_SIZE
  IN IF rest >= CHUNK_SIZE THEN CHUNK_SIZE ELSE IF rest > 0 THEN rest ELSE 0

\* The write_chunk calls that returned are the chunks of the declared file,
\* all of them, each with its own length.
CoversWholeFile ==
  /\ NoWriteUnderWay
  /\ \A i \in SinkChunkIdx :
       /\ (ChunkLenOf(sink.size, i) > 0) => i \in Written
       /\ (i \in Written) => sink.writes[i].len = ChunkLenOf(sink.size, i)

\* verify_and_finalize has returned; it was called when every chunk of the
\* file had been written, with the BLAKE3 of the written bytes.
FinalizedWrittenFile ==
  /\ sink.handle # "none"
  /\ sink.vf = "done"
  /\ sink.under_way = {}
  /\ CoversWholeFile
  /\ sink.expected = SinkHash(sink.at_verify)

\* C22: after create_part_file, write_chunk calls covering the whole file and
\* verify_and_finalize(h) with h the BLAKE3 of the written bytes, the call has
\* succeeded, the final path holds the written content with the declared
\* size, and the .part path no longer exists.
C22_FinalizeMovesPartToFinal ==
  FinalizedWrittenFile =>
    /\ sink.result = "Ok"
    /\ sink.final.exists
    /\ sink.final.cells = sink.at_verify
    /\ sink.final.cells = Intended(sink.size)
    /\ Len(sink.final.cells) * Cell = sink.size
    /\ ~sink.part.exists

\* A two-chunk file written by two interleaved calls was finalised.
C22_Witness ==
  /\ FinalizedWrittenFile
  /\ sink.size = 2 * CHUNK_SIZE
  /\ sink.interleaved
  /\ sink.result = "Ok"
  /\ sink.final.cells = <<1, 1, 2, 2>>

\* C23: when the hash passed to verify_and_finalize differs from the hash of
\* the .part content, the call returns the checksum-mismatch error, the
\* .part file is deleted, and the final path holds what it held before (no
\* file when there was none).
C23_MismatchDeletesPart ==
  [][(/\ sink.handle # "none"
      /\ sink.vf = "verified"
      /\ sink.expected # SinkHash(sink.at_verify)
      /\ sink'.vf = "done")
     => (/\ sink'.result = "Transfer: checksum mismatch"
         /\ ~sink'.part.exists
         /\ sink'.final = sink.final)]_vars

\* verify_and_finalize was called with a wrong hash on a fully written file
\* and returned; nothing is at the final path.
C23_Witness ==
  /\ sink.handle # "none"
  /\ sink.vf = "done"
  /\ Written = SinkChunkIdx
  /\ sink.expected = wrong_hash
  /\ sink.result = "Transfer: checksum mismatch"
  /\ ~sink.final.exists

(***************************************************************************)
(* Command layer (commands/mod.rs, commands/pairing.rs,                    *)
(* commands/transfer.rs)                                                   *)
(*                                                                         *)
(* NetManagerState is Mutex<Option<NetManager>>: not managed until the     *)
(* first start succeeds, Some(manager) while a node runs, None after       *)
(* shutdown.  Of the manager only what the commands below change is kept.  *)
(***************************************************************************)
not_started_ok == "Ok"

\* commands::not_started
not_started == "NodeNotStarted"

\* A command takes net: State<'_, NetManagerState> and the state was never
\* managed: the State extractor fails before the body runs.
state_not_managed == "state not managed"

\* The peers a command may name.
ApiPeers == {"S", "U"}

\* let guard = net.lock().await;
\* let manager = guard.as_ref().ok_or_else(not_started)?;
\* and then the call on the manager, which leaves it as `after`.
with_manager(command, after) ==
  IF api.net = "unmanaged"
  THEN [api EXCEPT !.command = command, !.result = state_not_managed]
  ELSE IF api.net = "None"
  THEN [api EXCEPT !.command = command, !.result = not_started]
  ELSE [api EXCEPT !.command = command, !.result = "manager called",
                   !.manager = after]

\* commands::start: the node is built (swarm_p2p_core::start may fail with
\* AppError::Network) and stored with the paired devices the UI passed.
cmd_start(devices, started) ==
  /\ api' =
       IF started
       THEN [net |-> "Some",
             manager |-> [paired_devices |-> devices, active_code |-> FALSE],
             command |-> "start", result |-> "Ok"]
       ELSE [api EXCEPT !.command = "start", !.result = "Network"]
  /\ UNCHANGED apiRest

\* commands::shutdown: guard.take() when the state is managed.
cmd_shutdown ==
  /\ api' =
       IF api.net = "unmanaged"
       THEN [api EXCEPT !.command = "shutdown", !.result = "Ok"]
       ELSE [net |-> "None", manager |-> NoManager,
             command |-> "shutdown", result |-> "Ok"]
  /\ UNCHANGED apiRest

\* commands::generate_pairing_code
cmd_generate_pairing_code ==
  /\ api' = with_manager("generate_pairing_code",
                         [api.manager EXCEPT !.active_code = TRUE])
  /\ UNCHANGED apiRest

\* commands::get_device_info
cmd_get_device_info ==
  /\ api' = with_manager("get_device_info", api.manager)
  /\ UNCHANGED apiRest

\* commands::request_pairing: the peer is stored when it accepts.
cmd_request_pairing(peer_id, accepted) ==
  /\ api' = with_manager("request_pairing",
       IF accepted
       THEN [api.manager EXCEPT !.paired_devices = @ \cup {peer_id}]
       ELSE api.manager)
  /\ UNCHANGED apiRest

\* commands::respond_pairing_request: an accepted requester is stored and
\* the code it carried is consumed.
cmd_respond_pairing_request(peer_id, accepted) ==
  /\ api' = with_manager("respond_pairing_request",
       IF accepted
       THEN [api.manager EXCEPT !.paired_devices = @ \cup {peer_id},
                                !.active_code = FALSE]
       ELSE api.manager)
  /\ UNCHANGED apiRest

\* commands::remove_paired_device: silently Ok when no node runs.
cmd_remove_paired_device(peer_id) ==
  /\ api' =
       IF api.net = "unmanaged"
       THEN [api EXCEPT !.command = "remove_paired_device",
                        !.result = state_not_managed]
       ELSE IF api.net = "Some"
       THEN [api EXCEPT !.command = "remove_paired_device", !.result = "Ok",
                        !.manager.paired_devices = @ \ {peer_id}]
       ELSE [api EXCEPT !.command = "remove_paired_device", !.result = "Ok"]
  /\ UNCHANGED apiRest

\* commands::list_devices
cmd_list_devices ==
  /\ api' = with_manager("list_devices", api.manager)
  /\ UNCHANGED apiRest

\* commands::get_network_status: NetworkStatus::default() when no node runs.
cmd_get_network_status ==
  /\ api' =
       IF api.net = "unmanaged"
       THEN [api EXCEPT !.command = "get_network_status",
                        !.result = state_not_managed]
       ELSE IF api.net = "Some"
       THEN [api EXCEPT !.command = "get_network_status",
                        !.result = "Ok(manager.get_network_status())"]
       ELSE [api EXCEPT !.command = "get_network_status",
                        !.result = "Ok(NetworkStatus::default())"]
  /\ UNCHANGED apiRest

\* commands::scan_sources takes no NetManagerState: it reads the sources.
cmd_scan_sources ==
  /\ api' = [api EXCEPT !.command = "scan_sources", !.result = "Ok"]
  /\ UNCHANGED apiRest

\* The transfer commands that fetch manager.transfer_arc() and call it:
\* prepare_send, start_send, accept_receive, reject_receive, cancel_send,
\* cancel_receive.  Their sessions are the state of the transfer manager.
TransferCommands ==
  {"prepare_send", "start_send", "accept_receive", "reject_receive",
   "cancel_send", "cancel_receive"}
cmd_transfer(command) ==
  /\ api' = with_manager(command, api.manager)
  /\ UNCHANGED apiRest

\* The commands of the pairing, transfer, device and network-status API.
ApiCommands ==
  {"generate_pairing_code", "get_device_info", "request_pairing",
   "respond_pairing_request", "remove_paired_device", "list_devices",
   "get_network_status", "scan_sources"} \cup TransferCommands

\* The commands that do not ask for a running node.
NoNodeNeeded == {"remove_paired_device", "get_network_status", "scan_sources"}

ApiNext ==
  \/ \E devices \in SUBSET ApiPeers, started \in BOOLEAN : cmd_start(devices, started)
  \/ cmd_shutdown
  \/ cmd_generate_pairing_code
  \/ cmd_get_device_info
  \/ \E peer_id \in ApiPeers, accepted \in BOOLEAN : cmd_request_pairing(peer_id, accepted)
  \/ \E peer_id \in ApiPeers, accepted \in BOOLEAN :
       cmd_respond_pairing_request(peer_id, accepted)
  \/ \E peer_id \in ApiPeers : cmd_remove_paired_device(peer_id)
  \/ cmd_list_devices
  \/ cmd_get_network_status
  \/ cmd_scan_sources
  \/ \E command \in TransferCommands : cmd_transfer(command)

\* The command layer alone.
ApiSpec == PairInit /\ [][ApiNext]_vars

\* A command of the API was invoked in this step.
ApiCommandInvoked == api' # api /\ api'.command \in ApiCommands

\* C24 (as stated): every command of the pairing, transfer, device and
\* network-status API issued while no node is running fails with
\* NodeNotStarted and changes no state.
C24_AllFailNotStarted ==
  [][(api.net # "Some" /\ ApiCommandInvoked)
     => (/\ api'.result = "NodeNotStarted"
         /\ api'.net = api.net
         /\ api'.manager = api.manager)]_vars

\* C24: issued after shutdown (the managed state holds no node), every
\* command of the API changes no state; remove_paired_device,
\* get_network_status and scan_sources return Ok and every other command
\* fails with NodeNotStarted.
C24_NotStartedAfterShutdown ==
  [][(api.net = "None" /\ ApiCommandInvoked)
     => (/\ api'.net = api.net
         /\ api'.manager = api.manager
         /\ (api'.command \notin NoNodeNeeded => api'.result = "NodeNotStarted")
         /\ (api'.command = "remove_paired_device" => api'.result = "Ok")
         /\ (api'.command = "get_network_status"
               => api'.result = "Ok(NetworkStatus::default())")
         /\ (api'.command = "scan_sources" => api'.result = "Ok"))]_vars

\* start_send was invoked after a shutdown and failed with NodeNotStarted.
C24_Witness ==
  /\ api.net = "None"
  /\ api.command = "start_send"
  /\ api.result = "NodeNotStarted"

(***************************************************************************)
(* Progress events (transfer/progress.rs)                                  *)
(*                                                                         *)
(* Time is the monotonic clock in milliseconds, advancing in steps of      *)
(* TickMs.                                                                 *)
(***************************************************************************)
MaxTicks == 6
TickMs == 100
THROTTLE_INTERVAL == 200

\* Time passes on the monotonic clock (Instant::now()).
Advance ==
  /\ throttle.clock + TickMs <= MaxTicks * TickMs
  /\ throttle' = [throttle EXCEPT !.clock = @ + TickMs]
  /\ UNCHANGED throttleRest

within_interval_never(t, last) == FALSE

\* now.duration_since(last) < THROTTLE_INTERVAL
within_interval(t, last) == t - last < THROTTLE_INTERVAL

\* ProgressTracker::emit_progress: returns without a trace when the last
\* event is younger than THROTTLE_INTERVAL, else stores now in last_emit and
\* emits transfer-progress.
emit_progress(t) ==
  LET tr == throttle.trackers[t]
      clock == throttle.clock
  IN /\ throttle' =
          IF tr.last_emit # -1 /\ within_interval(clock, tr.last_emit)
          THEN [throttle EXCEPT !.trackers[t].suppressed = TRUE]
          ELSE [throttle EXCEPT !.trackers[t].last_emit = clock,
                                !.trackers[t].events = Append(@, clock)]
     /\ UNCHANGED throttleRest

ThrottleNext ==
  \/ Advance
  \/ \E t \in Trackers : emit_progress(t)

\* The progress trackers and the clock alone.
ThrottleSpec == PairInit /\ [][ThrottleNext]_vars

\* C25: any two transfer-progress events of one session are at least 200 ms
\* apart: emit_progress emits only when the tracker emitted nothing during
\* the previous 200 ms, and a call that emits nothing leaves last_emit as it
\* was.
C25_ProgressThrottled ==
  /\ [](\A t \in Trackers :
          LET events == throttle.trackers[t].events
          IN \A i, j \in 1..Len(events) :
               i < j => events[j] - events[i] >= 200)
  /\ [][\A t \in Trackers :
          LET tr == throttle.trackers[t]
              tr2 == throttle'.trackers[t]
          IN /\ (tr2.events # tr.events) =>
                  /\ tr.last_emit = -1 \/ throttle.clock - tr.last_emit >= 200
                  /\ tr2.last_emit = throttle.clock
                  /\ tr2.events = Append(tr.events, throttle.clock)
             /\ (tr2.events = tr.events) => tr2.last_emit = tr.last_emit]_vars

\* A tracker emitted two events exactly 200 ms apart and suppressed a call in
\* between, while the other tracker emitted at another time.
C25_Witness ==
  /\ Len(throttle.trackers["s1"].events) = 2
  /\ throttle.trackers["s1"].events[2] - throttle.trackers["s1"].events[1] = 200
  /\ throttle.trackers["s1"].suppressed
  /\ Len(throttle.trackers["s2"].events) = 1
  /\ throttle.trackers["s2"].events[1] = throttle.trackers["s1"].events[1] + 100

(***************************************************************************)
(* Chunk encryption (transfer/crypto.rs)                                   *)
(*                                                                         *)
(* A ciphertext is the plaintext sealed under a key and a nonce; the tag   *)
(* verifies only under that key and nonce and only when no byte of the     *)
(* ciphertext was altered.                                                 *)
(***************************************************************************)
TAG_LEN == 16

CryptoKeys == {"k1", "k2"}
CryptoSessions == {"s1", "s2"}
CryptoFileIds == {0, 1}
CryptoChunks == {0, 1}
Plaintexts ==
  {[len |-> 0, fill |-> 0], [len |-> 17, fill |-> 7], [len |-> CHUNK_SIZE, fill |-> 7]}

NoCiphertext == [key |-> "None", nonce |-> <<>>, plaintext |-> [len |-> -3, fill |-> 0]]
NoOutput == [len |-> -3, fill |-> 0]

\* The arguments of an encrypt_chunk call, the ciphertext not yet made.
CryptoInputs ==
  {[fn |-> "crypto", key |-> k, session_id |-> s, file_id |-> f, chunk_index |-> c,
    plaintext |-> p, ciphertext |-> NoCiphertext, modified |-> FALSE,
    decrypted |-> FALSE, with |-> <<>>, out |-> NoOutput] :
   k \in CryptoKeys, s \in CryptoSessions, f \in CryptoFileIds, c \in CryptoChunks,
   p \in Plaintexts}

\* Vec<u8>::len of encrypt_chunk's output: the ciphertext of the stream
\* cipher is as long as the plaintext, and the Poly1305 tag follows it.
ciphertext_len(ciphertext) == ciphertext.plaintext.len + TAG_LEN

\* The sender calls encrypt_chunk.
crypto_encrypt ==
  /\ pure.fn = "crypto"
  /\ pure.ciphertext = NoCiphertext
  /\ pure' = [pure EXCEPT !.ciphertext =
       encrypt_chunk(pure.key, pure.session_id, pure.file_id, pure.chunk_index,
                     pure.plaintext)]
  /\ UNCHANGED pureRest

\* A byte of the ciphertext is altered before it is decrypted
\* (ciphertext[0] ^= 0xff): it is no longer what any key sealed.
crypto_modify ==
  /\ pure.fn = "crypto"
  /\ pure.ciphertext # NoCiphertext
  /\ ~pure.modified
  /\ ~pure.decrypted
  /\ pure' = [pure EXCEPT !.ciphertext.key = "tampered", !.modified = TRUE]
  /\ UNCHANGED pureRest

\* The receiver calls decrypt_chunk with its own key and chunk coordinates.
crypto_decrypt(key, session_id, file_id, chunk_index) ==
  /\ pure.fn = "crypto"
  /\ pure.ciphertext # NoCiphertext
  /\ ~pure.decrypted
  /\ pure' = [pure EXCEPT
       !.decrypted = TRUE,
       !.with = <<key, session_id, file_id, chunk_index>>,
       !.out = decrypt_chunk(key, session_id, file_id, chunk_index, pure.ciphertext)]
  /\ UNCHANGED pureRest

CryptoNext ==
  \/ crypto_encrypt
  \/ crypto_modify
  \/ \E k \in CryptoKeys, s \in CryptoSessions, f \in CryptoFileIds, c \in CryptoChunks :
       crypto_decrypt(k, s, f, c)

\* encrypt_chunk and decrypt_chunk applied to drawn arguments.
CryptoSpec == PureInit(CryptoInputs) /\ [][CryptoNext]_vars

\* decrypt_chunk was called with the key and the coordinates of the
\* encrypt_chunk call.
SameCoordinates ==
  pure.with = <<pure.key, pure.session_id, pure.file_id, pure.chunk_index>>

C27_DecryptFailsOnAnyDifference ==
  (pure.fn = "crypto" /\ pure.decrypted /\ (pure.modified \/ ~SameCoordinates))
    => pure.out = DecryptionFailed

\* decrypt_chunk was called with every argument right but the chunk index,
\* on an unmodified ciphertext, and failed.
C27_Witness ==
  /\ pure.fn = "crypto"
  /\ pure.decrypted
  /\ ~pure.modified
  /\ pure.with = <<pure.key, pure.session_id, pure.file_id, 1 - pure.chunk_index>>
  /\ pure.out = DecryptionFailed

(***************************************************************************)
(* calc_total_chunks over the whole of u64 (file_source/mod.rs)            *)
(*                                                                         *)
(* A u64 file size n is written [top, mid, low, rem] with                  *)
(*   n = ((top * Limb + mid) * Limb + low) * CHUNK_SIZE + rem,             *)
(* rem < CHUNK_SIZE, low and mid < Limb, top < 2^14; a u32 is written      *)
(* [mid, low].  The quotient of n by CHUNK_SIZE is then [top, mid, low].   *)
(***************************************************************************)
Limb == 65536

U64(top, mid, low, rem) == [top |-> top, mid |-> mid, low |-> low, rem |-> rem]

\* u64::div_ceil(file_size, CHUNK_SIZE as u64): the quotient, one more when
\* the division leaves a remainder; it fits a u64.
div_ceil(file_size) ==
  LET up == IF file_size.rem > 0 THEN 1 ELSE 0
      low == file_size.low + up
      mid == file_size.mid + (low \div Limb)
  IN [top |-> file_size.top + (mid \div Limb), mid |-> mid % Limb, low |-> low % Limb]

\* `as u32`: the low 32 bits of the value.
as_u32(quotient) == [mid |-> quotient.mid, low |-> quotient.low]

\* calc_total_chunks on a u64
calc_total_chunks_u64(file_size) ==
  IF file_size = U64(0, 0, 0, 0) THEN [mid |-> 0, low |-> 1]
  ELSE as_u32(div_ceil(file_size))

\* The file sizes calc_total_chunks is applied to: around 0, around one and
\* ten chunks, around 2^16 and 2^32 chunks, and up to u64::MAX.
ChunkInputs ==
  {[fn |-> "calc_total_chunks", file_size |-> U64(top, mid, low, rem),
    called |-> FALSE, out |-> [mid |-> 0, low |-> 0]] :
   top \in {0, 1, 16383}, mid \in {0, 1, Limb - 1}, low \in {0, 1, 2, 10, Limb - 1},
   rem \in {0, 1, CHUNK_SIZE - 1}}

\* calc_total_chunks is called on the drawn size.
apply_calc_total_chunks ==
  /\ pure.fn = "calc_total_chunks"
  /\ ~pure.called
  /\ pure' = [pure EXCEPT !.called = TRUE,
                          !.out = calc_total_chunks_u64(pure.file_size)]
  /\ UNCHANGED pureRest

\* calc_total_chunks applied to drawn file sizes.
ChunksSpec == PureInit(ChunkInputs) /\ [][apply_calc_total_chunks]_vars

\* ceil(n / 262144) of a size n > 0, as a number written [top, mid, low].
CeilOfQuotient(n) ==
  IF n.rem = 0 THEN [top |-> n.top, mid |-> n.mid, low |-> n.low]
  ELSE IF n.low < 65535 THEN [top |-> n.top, mid |-> n.mid, low |-> n.low + 1]
  ELSE IF n.mid < 65535 THEN [top |-> n.top, mid |-> n.mid + 1, low |-> 0]
  ELSE [top |-> n.top + 1, mid |-> 0, low |-> 0]

\* The u32 `out` is the number written [top, mid, low].
SameNumber(out, number) ==
  number.top = 0 /\ out.mid = number.mid /\ out.low = number.low

\* C28: calc_total_chunks(0) = 1 and, for n > 0, calc_total_chunks(n) is
\* ceil(n / 262144); so 262144 gives 1 and 262145 gives 2.
C28_CeilOfSizeOverChunk ==
  (pure.fn = "calc_total_chunks" /\ pure.called) =>
    IF pure.file_size = U64(0, 0, 0, 0)
    THEN pure.out = [mid |-> 0, low |-> 1]
    ELSE SameNumber(pure.out, CeilOfQuotient(pure.file_size))

\* calc_total_chunks is ceil(n / 262144) for the sizes whose quotient fits a u32.
CalcRightBelowOverflow ==
  (pure.fn = "calc_total_chunks" /\ pure.called
     /\ CeilOfQuotient(pure.file_size).top = 0) =>
    IF pure.file_size = U64(0, 0, 0, 0)
    THEN pure.out = [mid |-> 0, low |-> 1]
    ELSE SameNumber(pure.out, CeilOfQuotient(pure.file_size))

(***************************************************************************)
(* Connection kind of a peer (device/utils.rs, device/manager.rs)          *)
(*                                                                         *)
(* Of a Multiaddr the code looks at two things: whether it holds a         *)
(* P2pCircuit protocol, and the IP protocol it holds, if any.              *)
(***************************************************************************)
MaxAddrs == 2

\* The IP part of an address: an Ip4 of one of the classes of Ipv4Addr, an
\* Ip6, or none (a /dns4/ address).
IpKinds ==
  {"ip4 private", "ip4 loopback", "ip4 link-local", "ip4 public",
   "ip4 unspecified", "ip6 loopback", "ip6 public", "no ip"}

Multiaddrs == [circuit : BOOLEAN, ip : IpKinds]

\* has_p2p_circuit
has_p2p_circuit(addr) == addr.circuit

\* has_private_ip: Protocol::Ip4(ip) with is_private, is_loopback or is_link_local
has_private_ip(addr) ==
  addr.ip \in {"ip4 private", "ip4 loopback", "ip4 link-local"}

\* has_public_ip: Protocol::Ip4(ip) that is none of private, loopback,
\* link-local, unspecified
has_public_ip(addr) == addr.ip = "ip4 public"

\* infer_connection_type: each address is classed once, circuit first; the
\* classes found are ranked Lan, Dcutr, Relay.
infer_connection_type(addrs) ==
  LET has_relay == \E a \in addrs : has_p2p_circuit(a)
      has_lan == \E a \in addrs : ~has_p2p_circuit(a) /\ has_private_ip(a)
      has_dcutr ==
        \E a \in addrs : ~has_p2p_circuit(a) /\ ~has_private_ip(a) /\ has_public_ip(a)
  IN IF addrs = {} THEN "None"
     ELSE IF has_lan THEN "Lan"
     ELSE IF has_dcutr THEN "Dcutr"
     ELSE IF has_relay THEN "Relay"
     ELSE "None"

connection_info_by_address(addrs, hole_punched) == infer_connection_type(addrs)

\* connection_info: the connection kind of a connected peer
connection_info(addrs, hole_punched) ==
  IF hole_punched THEN "Dcutr" ELSE infer_connection_type(addrs)

\* DeviceManager::to_device: the kind is asked for a connected peer only.
device_connection(peer) ==
  IF peer.is_connected THEN connection_info(peer.addrs, peer.hole_punched)
  ELSE "None"

\* The entries of the peer table the kind is computed for.
PeerInputs ==
  {[fn |-> "connection", addrs |-> addrs, hole_punched |-> h, is_connected |-> c,
    called |-> FALSE, out |-> "none"] :
   addrs \in {s \in SUBSET Multiaddrs : Cardinality(s) <= MaxAddrs},
   h \in BOOLEAN, c \in BOOLEAN}

\* get_devices builds the Device of the drawn peer.
apply_connection ==
  /\ pure.fn = "connection"
  /\ ~pure.called
  /\ pure' = [pure EXCEPT !.called = TRUE, !.out = device_connection(pure)]
  /\ UNCHANGED pureRest

\* The connection kind computed for drawn peers.
ConnectionSpec == PureInit(PeerInputs) /\ [][apply_connection]_vars

\* The kind of a connected peer was computed.
KindComputed == pure.fn = "connection" /\ pure.called /\ pure.is_connected

EveryFileFinalized ==
  \A k \in 1..Len(rsess.files) :
    /\ final[k] # NoFile
    /\ Blake3(final[k]) = rsess.files[k].checksum
    /\ part[k] = NoFile

\* The Complete request of the pull task has been sent.
CompleteSent == complete_frame # "none"

\* The Complete request has returned: with the Ack of S, or with an error.
CompleteReturned == complete_frame \in {"acked", "lost"}

\* C30: R sends Transfer::Complete of a session only after every file of the
\* session has passed the checksum verification and has been renamed to its
\* final path, and emits transfer-complete (receive) only after that request
\* has returned, be it with an Ack or with an error.
C30_CompleteAfterEveryFile ==
  /\ CompleteSent => EveryFileFinalized
  /\ \A sid \in Sessions :
       EmittedR("transfer-complete", sid) =>
         /\ CompleteSent
         /\ sid = rsess.session_id
         /\ CompleteReturned

\* A session of two files whose Complete request was lost, and whose
\* transfer-complete was emitted all the same.
C30_Witness ==
  /\ rsess # NoSession
  /\ Len(rsess.files) = 2
  /\ complete_frame = "lost"
  /\ EmittedR("transfer-complete", rsess.session_id)

(***************************************************************************)
(* The event loop of S on inbound transfer frames (network/event_loop.rs)  *)
(***************************************************************************)
MaxFrames == 2

\* The peers connected to S: R, which accepted the offer of session s1, and
\* another peer X.
LoopPeers == {"R", "X"}

\* The files of session s1, and the file id and chunk index a ChunkRequest
\* may name: the chunks of the files of the session, an index past the end
\* of each, the largest index, and a file that is not in the session.
LoopFiles == <<F_empty, F_two>>
LoopChunkRequests ==
  {<<F_two.file_id, 0>>, <<F_two.file_id, 1>>, <<F_two.file_id, 2>>,
   <<F_empty.file_id, 0>>, <<F_empty.file_id, 1>>, <<F_empty.file_id, U32_MAX>>,
   <<F_small.file_id, 0>>}

\* An inbound request as the event loop took it, with the pending_id being
\* its position: the send session found when it was dispatched, the task
\* spawned for it, the responses passed to send_response, and the cleanup
\* task of a cancelled receive session.
Frame(kind, peer_id, session_id, file_id, chunk_index, session, cleanup) ==
  [kind |-> kind, peer_id |-> peer_id, session_id |-> session_id,
   file_id |-> file_id, chunk_index |-> chunk_index, session |-> session,
   task |-> "spawned", responses |-> <<>>, cleanup |-> cleanup]

\* S after send_offer returned the acceptance of R: the send session s1 is
\* registered and S is itself receiving session s2. The build checks
\* arithmetic overflow (the dev profile) or wraps (the release profile).
LoopInit ==
  /\ now = 0
  /\ active_code = NoCode
  /\ gens_done = 0
  /\ pending_inbound = [p \in PendingIds |-> NoPending]
  /\ paired_devices = [p \in Peers |-> IF p = "S" THEN "os-S" ELSE NoDevice]
  /\ calls = [c \in CallIds |-> IdleCall]
  /\ used = "none"
  /\ requests = [pid \in PendingIds |-> IdleRequest]
  /\ discovered_peers = [pid \in PendingIds |-> NoDevice]
  /\ wire = [pid \in PendingIds |-> "none"]
  /\ initiator_paired = [pid \in PendingIds |-> NoDevice]
  /\ earlier = {}
  /\ net = [n \in Nodes |-> "free"]
  /\ request_cmd = [n \in Nodes |-> "idle"]
  /\ respond_cmd = [n \in Nodes |-> IdleRespond]
  /\ inbound_request = [n \in Nodes |-> "none"]
  /\ holds_peer = [n \in Nodes |-> FALSE]
  /\ sink = NoSink
  /\ api = NoApi
  /\ throttle = NoThrottle
  /\ pure = NoPure
  /\ offer_calls = NoOfferCalls
  /\ \E checks \in BOOLEAN :
       loop = [NoLoop EXCEPT !.recv = {"s2"}, !.parts = {"s2"},
                             !.overflow_checks = checks]
  /\ files = LoopFiles
  /\ offer = [p \in Offerers |-> IF p = "S" THEN "answered" ELSE "none"]
  /\ offer_result = [p \in Offerers |->
                       IF p = "S"
                       THEN [accepted |-> TRUE, key |-> generate_key, reason |-> "none"]
                       ELSE NoResult]
  /\ start_send = "accepted"
  /\ pending = [sid \in Sessions |-> NoOffer]
  /\ send_sessions = {SessionOf("S")}
  /\ send_cancelled = {}
  /\ progress = ProgressTracker_new(files)
  /\ receive_sessions = {SessionOf("S")}
  /\ rsess = [session_id |-> SessionOf("S"), peer_id |-> "S", files |-> files,
              key |-> generate_key, cancelled |-> FALSE]
  /\ pull = [NoPull EXCEPT !.pc = "top", !.file = 1]
  /\ error_flag = "none"
  /\ tasks = <<>>
  /\ part = [i \in FileIdx |-> NoFile]
  /\ final = [i \in FileIdx |-> NoFile]
  /\ complete_frame = "none"
  /\ cr = NoCancelCall
  /\ cancel_frame = NoFrame
  /\ faults = 0
  /\ ui_R = <<Event("transfer-offer", SessionOf("S"), "receive")>>
  /\ ui_S = <<>>

\* What the event loop of S leaves alone.
loopRest == <<now, active_code, gens_done, pending_inbound, paired_devices, calls,
              used, hsVars, earlier, cmdVars, sink, api, throttle, pure,
              offer_calls, files, offerVars, receive_sessions, rsess, pull, error_flag, tasks, part,
              final, complete_frame, cancelVars, faults, ui_R>>

\* The match of the ChunkRequest task: no session gives an Ack, an error of
\* handle_chunk_request is logged and gives an Ack, otherwise its Chunk.
chunk_reply(session, session_id, file_id, chunk_index) ==
  IF ~session THEN Ack
  ELSE LET r == handle_chunk_request(session_id, generate_key, file_id, chunk_index)
       IN IF r = HandlerErr THEN Ack ELSE r

\* The event loop takes a ChunkRequest: it looks the send session up and
\* spawns the task that will answer.
dispatch_chunk_request(peer_id, session_id, file_id, chunk_index) ==
  /\ Len(loop.frames) < MaxFrames
  /\ loop' = [loop EXCEPT !.frames =
        Append(@, Frame("ChunkRequest", peer_id, session_id, file_id, chunk_index,
                        session_id \in send_sessions, "none"))]
  /\ UNCHANGED <<loopRest, send_sessions, send_cancelled, progress, ui_S>>

\* `chunk_index + 1` of handle_chunk_request overflows.
add_overflows(chunk_index) == chunk_index = U32_MAX

\* The task spawned for ChunkRequest k runs: handle_chunk_request on the
\* session found (it counts the bytes of a chunk it serves), then
\* send_response with the chunk or the Ack. In a build that checks overflow
\* the task panics at `chunk_index + 1`, after the bytes were counted, and
\* sends nothing.
chunk_request_task(k) ==
  /\ k \in DOMAIN loop.frames
  /\ loop.frames[k].kind = "ChunkRequest"
  /\ loop.frames[k].task = "spawned"
  /\ LET f == loop.frames[k]
         response == chunk_reply(f.session, f.session_id, f.file_id, f.chunk_index)
         panics == /\ loop.overflow_checks
                   /\ response.kind = "Chunk"
                   /\ add_overflows(f.chunk_index)
     IN /\ loop' = IF panics
                   THEN [loop EXCEPT !.frames[k].task = "panicked"]
                   ELSE [loop EXCEPT !.frames[k].task = "done",
                                     !.frames[k].responses = Append(@, response)]
        /\ progress' = IF response.kind = "Chunk"
                       THEN update_file_chunk(
                              add_bytes(progress, response.data.plaintext.len),
                              f.file_id, response.data.plaintext.len)
                       ELSE progress
  /\ UNCHANGED <<loopRest, send_sessions, send_cancelled, ui_S>>

\* The event loop takes a Complete: the send session of that id is removed
\* and the task that acknowledges is spawned.
dispatch_complete(peer_id, session_id) ==
  /\ Len(loop.frames) < MaxFrames
  /\ send_sessions' = remove(send_sessions, session_id)
  /\ loop' = [loop EXCEPT !.frames =
        Append(@, Frame("Complete", peer_id, session_id, 0, 0,
                        session_id \in send_sessions, "none"))]
  /\ UNCHANGED <<loopRest, send_cancelled, progress, ui_S>>

\* The task spawned for Complete k: send_response with an Ack, then
\* transfer-complete is emitted on S.
complete_task(k) ==
  /\ k \in DOMAIN loop.frames
  /\ loop.frames[k].kind = "Complete"
  /\ loop.frames[k].task = "spawned"
  /\ loop' = [loop EXCEPT !.frames[k].task = "done",
                          !.frames[k].responses = Append(@, Ack)]
  /\ ui_S' = Append(ui_S, Event("transfer-complete", loop.frames[k].session_id, "send"))
  /\ UNCHANGED <<loopRest, send_sessions, send_cancelled, progress>>

\* The event loop takes a Cancel: a send session of that id is cancelled and
\* removed; a receive session of that id is cancelled and removed and the
\* task that deletes its .part files is spawned; the task that acknowledges
\* is spawned; transfer-failed is emitted.
dispatch_cancel(peer_id, session_id) ==
  /\ Len(loop.frames) < MaxFrames
  /\ send_cancelled' = IF session_id \in send_sessions
                       THEN send_cancelled \cup {session_id}
                       ELSE send_cancelled
  /\ send_sessions' = remove(send_sessions, session_id)
  /\ loop' = [loop EXCEPT
        !.recv = remove(@, session_id),
        !.recv_cancelled = IF session_id \in loop.recv
                           THEN @ \cup {session_id} ELSE @,
        !.frames = Append(@, Frame("Cancel", peer_id, session_id, 0, 0,
                                   session_id \in send_sessions,
                                   IF session_id \in loop.recv
                                   THEN "spawned" ELSE "none"))]
  /\ ui_S' = Append(ui_S, Event("transfer-failed", session_id, "unknown"))
  /\ UNCHANGED <<loopRest, progress>>

\* The task spawned for Cancel k: send_response with an Ack.
cancel_task(k) ==
  /\ k \in DOMAIN loop.frames
  /\ loop.frames[k].kind = "Cancel"
  /\ loop.frames[k].task = "spawned"
  /\ loop' = [loop EXCEPT !.frames[k].task = "done",
                          !.frames[k].responses = Append(@, Ack)]
  /\ UNCHANGED <<loopRest, send_sessions, send_cancelled, progress, ui_S>>

\* The cleanup task spawned for Cancel k: the .part files of the cancelled
\* receive session are deleted.
cancel_cleanup_task(k) ==
  /\ k \in DOMAIN loop.frames
  /\ loop.frames[k].cleanup = "spawned"
  /\ loop' = [loop EXCEPT !.frames[k].cleanup = "done",
                          !.parts = @ \ {loop.frames[k].session_id}]
  /\ UNCHANGED <<loopRest, send_sessions, send_cancelled, progress, ui_S>>

\* A step of a task the event loop spawned.
LoopTaskStep ==
  \E k \in 1..MaxFrames :
    \/ chunk_request_task(k)
    \/ complete_task(k)
    \/ cancel_task(k)
    \/ cancel_cleanup_task(k)

LoopNext ==
  \/ \E peer_id \in LoopPeers, session_id \in Sessions, c \in LoopChunkRequests :
        dispatch_chunk_request(peer_id, session_id, c[1], c[2])
  \/ \E peer_id \in LoopPeers, session_id \in Sessions :
        dispatch_complete(peer_id, session_id)
  \/ \E peer_id \in LoopPeers, session_id \in Sessions :
        dispatch_cancel(peer_id, session_id)
  \/ \E k \in 1..MaxFrames : chunk_request_task(k)
  \/ \E k \in 1..MaxFrames : complete_task(k)
  \/ \E k \in 1..MaxFrames : cancel_task(k)
  \/ \E k \in 1..MaxFrames : cancel_cleanup_task(k)
  \/ \E session_id \in Sessions : cancel_send(session_id)

\* The event loop of S on the frames of any connected peer.
LoopSpec == LoopInit /\ [][LoopNext]_vars

\* The event loop of S on the frames of R alone.
PeerLoopNext ==
  \/ \E session_id \in Sessions, c \in LoopChunkRequests :
        dispatch_chunk_request("R", session_id, c[1], c[2])
  \/ \E session_id \in Sessions : dispatch_complete("R", session_id)
  \/ \E session_id \in Sessions : dispatch_cancel("R", session_id)
  \/ \E k \in 1..MaxFrames : chunk_request_task(k)
  \/ \E k \in 1..MaxFrames : complete_task(k)
  \/ \E k \in 1..MaxFrames : cancel_task(k)
  \/ \E k \in 1..MaxFrames : cancel_cleanup_task(k)

\* The same with every spawned task kept running: a task that was spawned
\* eventually takes its step.
LoopFairSpec == LoopInit /\ [][PeerLoopNext]_vars /\ WF_vars(LoopTaskStep)

(***************************************************************************)
(* Claims on the event loop                                                *)
(***************************************************************************)
\* The ChunkRequests the event loop has taken.
ChunkFrames == {k \in DOMAIN loop.frames : loop.frames[k].kind = "ChunkRequest"}

\* The event loop takes one more inbound request of R.
LoopDispatch ==
  \/ \E session_id \in Sessions, c \in LoopChunkRequests :
        dispatch_chunk_request("R", session_id, c[1], c[2])
  \/ \E session_id \in Sessions : dispatch_complete("R", session_id)
  \/ \E session_id \in Sessions : dispatch_cancel("R", session_id)

\* The response the claim expects for ChunkRequest k when its task runs.
ExpectedChunkResponse(k) ==
  LET f == loop.frames[k]
      r == handle_chunk_request(f.session_id, generate_key, f.file_id, f.chunk_index)
  IN IF f.session /\ r # HandlerErr THEN r ELSE Ack

\* C31: every inbound ChunkRequest gets exactly one response: none while its
\* task has not run, one from then on, and in the end one; the response is
\* the Chunk when the send session was found and handle_chunk_request
\* succeeds, otherwise an Ack; and while the task of a ChunkRequest has not
\* answered yet the event loop can take the next request.
C31_OneResponsePerChunkRequest ==
  /\ [](\A k \in ChunkFrames :
          /\ Len(loop.frames[k].responses) <= 1
          /\ loop.frames[k].task = "done" <=> Len(loop.frames[k].responses) = 1)
  /\ [][\A k \in ChunkFrames :
          loop.frames[k].responses # loop'.frames[k].responses =>
            loop'.frames[k].responses = <<ExpectedChunkResponse(k)>>]_vars
  /\ \A k \in 1..MaxFrames :
       (k \in ChunkFrames) ~>
         (k \in ChunkFrames /\ Len(loop.frames[k].responses) = 1)
  /\ []((\E k \in ChunkFrames : loop.frames[k].task = "spawned")
          /\ Len(loop.frames) < MaxFrames => ENABLED LoopDispatch)

(***************************************************************************)
(* Claims on the failure of a chunk task                                   *)
(***************************************************************************)
\* Chunk task i returns an error in this step.
FailsNow(i) ==
  /\ i \in DOMAIN tasks
  /\ i \in DOMAIN tasks'
  /\ tasks[i].pc \notin {"none", "done"}
  /\ tasks'[i].pc = "done"
  /\ tasks'[i].resp # NoResp

\* pull_file_chunks returns the error of the slot in this step.
ReportsNow == pull.pc = "join" /\ pull'.pc # "join" /\ error_flag # "none"

\* C32: when a chunk task of a file fails for good, its error is written to
\* the shared slot only if the slot is empty (a later failure does not
\* overwrite the first) and the cancel flag of the session is set; the error
\* in the slot is the one reported, after every spawned chunk task has
\* ended, and then the .part file of the file is removed, transfer-failed is
\* emitted, the file is neither verified nor renamed, and no later file of
\* the session is started.
C32_FirstErrorReported ==
  /\ [][\A i \in ChunkIdx :
          FailsNow(i) =>
            /\ error_flag' = IF error_flag = "none"
                             THEN tasks'[i].resp.kind ELSE error_flag
            /\ rsess'.cancelled]_vars
  /\ [][ReportsNow =>
          /\ \A i \in DOMAIN tasks : tasks[i].pc \in {"none", "done"}
          /\ pull'.error = error_flag
          /\ pull'.pc = "finished"
          /\ pull'.result = "Err"
          /\ part'[pull.file] = NoFile
          /\ ui_R' = Append(ui_R, Event("transfer-failed", rsess.session_id, "receive"))
          /\ final' = final]_vars
  /\ [](pull.error # "none" =>
          /\ pull.pc \in {"finished", "done"}
          /\ rsess.cancelled
          /\ \A k \in FileIdx : k >= pull.file => final[k] = NoFile
          /\ \A k \in FileIdx : k > pull.file => part[k] = NoFile)

\* Two chunk tasks of one file failed with different errors, and the error
\* reported is the one of the task that failed first.
C32_Witness ==
  /\ pull.pc = "done"
  /\ pull.error = "DecryptionFailed"
  /\ \E i \in DOMAIN tasks : FailedWith(i, "DecryptionFailed")
  /\ \E i \in DOMAIN tasks : FailedWith(i, "Cancelled")

(***************************************************************************)
(* Claims on handle_chunk_request                                          *)
(***************************************************************************)
\* The file with identifier file_id is in the send session.
InSession(file_id) == \E j \in 1..Len(files) : files[j].file_id = file_id

\* The size of the file with identifier file_id.
SizeOf(file_id) == files[CHOOSE j \in 1..Len(files) : files[j].file_id = file_id].size

\* chunk_index is one of 0 .. total_chunks(size) - 1 of the file.
InRange(file_id, chunk_index) ==
  /\ InSession(file_id)
  /\ 0 <= chunk_index
  /\ chunk_index < calc_total_chunks(SizeOf(file_id))

\* C33: on a send session that is not cancelled, handle_chunk_request serves
\* exactly the chunk indexes 0 .. total_chunks(size) - 1 of a file of the
\* session: the plaintext has min(size - chunk_index * 262144, 262144) bytes
\* and is_last is set exactly when chunk_index + 1 >= total_chunks(size); for
\* a file that is not in the session and for any other chunk index it fails
\* (the task then answers with an Ack).
C33_ServesExactlyTheChunksOfTheFile ==
  [][\A k \in ChunkFrames :
       LET f == loop.frames[k] IN
         (/\ loop.frames[k].responses # loop'.frames[k].responses
          /\ f.session
          /\ f.session_id \notin send_cancelled)
           => LET r == loop'.frames[k].responses[1] IN
                IF InRange(f.file_id, f.chunk_index)
                THEN /\ r.kind = "Chunk"
                     /\ r.data.plaintext.len =
                          BlockLen(SizeOf(f.file_id), f.chunk_index)
                     /\ r.is_last <=>
                          f.chunk_index + 1 >= calc_total_chunks(SizeOf(f.file_id))
                ELSE r = Ack]_vars

\* The same for the files that are not empty.
ServesExactlyTheChunksOfNonEmptyFiles ==
  [][\A k \in ChunkFrames :
       LET f == loop.frames[k] IN
         (/\ loop.frames[k].responses # loop'.frames[k].responses
          /\ f.session
          /\ f.session_id \notin send_cancelled
          /\ InSession(f.file_id) => SizeOf(f.file_id) > 0)
           => LET r == loop'.frames[k].responses[1] IN
                IF InRange(f.file_id, f.chunk_index)
                THEN /\ r.kind = "Chunk"
                     /\ r.data.plaintext.len =
                          BlockLen(SizeOf(f.file_id), f.chunk_index)
                     /\ r.is_last <=>
                          f.chunk_index + 1 >= calc_total_chunks(SizeOf(f.file_id))
                ELSE r = Ack]_vars

(***************************************************************************)
(* Claims on the backoff of retries                                        *)
(***************************************************************************)
\* min(500 * 2^(k-1), 2000) for the retries k = 1, 2, 3.
BackoffOfRetry(k) == IF k = 1 THEN 500 ELSE IF k = 2 THEN 1000 ELSE 2000

\* C34: the delay before the k-th retry of a chunk is min(500 * 2^(k-1), 2000)
\* ms, and a chunk that keeps failing until its attempts are used up has
\* waited each of the three backoffs 500, 1000 and 2000 ms.
C34_ThreeBackoffs ==
  \A i \in DOMAIN tasks :
    /\ \A k \in 1..Len(tasks[i].delays) : tasks[i].delays[k] = BackoffOfRetry(k)
    /\ FailedWith(i, "Exhausted") => tasks[i].delays = <<500, 1000, 2000>>

\* The delays of the claim are right for the retries that happen, and a chunk
\* that keeps failing has waited 500 and 1000 ms.
BackoffsOfTheTwoRetries ==
  \A i \in DOMAIN tasks :
    /\ \A k \in 1..Len(tasks[i].delays) : tasks[i].delays[k] = BackoffOfRetry(k)
    /\ FailedWith(i, "Exhausted") => tasks[i].delays = <<500, 1000>>

(***************************************************************************)
(* Calls on a pending offer (transfer/offer.rs)                            *)
(***************************************************************************)
\* Bound on the accept_and_start_receive and reject_and_respond calls made.
MaxOfferCalls == 3

\* The commands the UI may invoke on a session id.
OfferOps == {"accept", "reject"}

offerCallRest == <<now, active_code, gens_done, pending_inbound, paired_devices,
                   calls, used, hsVars, earlier, cmdVars, sink, api, throttle,
                   pure, loop, files, start_send, send_sessions, send_cancelled,
                   progress, error_flag, tasks, part, final, complete_frame,
                   cr, cancel_frame, faults, ui_R, ui_S>>

\* A lookup that leaves the pending offer in the map.
peek_pending(offers, session_id) == offers

\* DashMap::remove on the pending offers: whoever reads the entry takes it.
take_pending(offers, session_id) == [offers EXCEPT ![session_id] = NoOffer]

\* accept_and_start_receive or reject_and_respond up to its first await: the
\* pending offer is removed, or the call returns "pending offer not found".
offer_call_begin(op, session_id) ==
  /\ Len(offer_calls) < MaxOfferCalls
  /\ LET o == pending[session_id] IN
       IF o = NoOffer
       THEN /\ offer_calls' = Append(offer_calls,
                 [op |-> op, session_id |-> session_id, pc |-> "done",
                  offer |-> NoOffer, result |-> "pending offer not found",
                  sent |-> 0, session |-> FALSE])
            /\ UNCHANGED pending
       ELSE /\ offer_calls' = Append(offer_calls,
                 [op |-> op, session_id |-> session_id, pc |-> "sending",
                  offer |-> o, result |-> "none", sent |-> 0,
                  session |-> FALSE])
            /\ pending' = take_pending(pending, session_id)
  /\ UNCHANGED <<offerCallRest, offer, offer_result, receive_sessions, rsess, pull>>

\* accept_and_start_receive after send_response: on an error the call returns
\* it and nothing else happens; otherwise the ReceiveSession is created,
\* registered and start_pulling spawns its pull task.
accept_respond(c, sent_ok) ==
  /\ c \in DOMAIN offer_calls
  /\ offer_calls[c].op = "accept"
  /\ offer_calls[c].pc = "sending"
  /\ LET o == offer_calls[c].offer IN
       IF sent_ok
       THEN /\ offer' = [offer EXCEPT ![o.peer_id] = "answered"]
            /\ offer_result' = [offer_result EXCEPT ![o.peer_id] =
                  [accepted |-> TRUE, key |-> generate_key, reason |-> "none"]]
            /\ receive_sessions' = receive_sessions \cup {o.session_id}
            /\ rsess' = [session_id |-> o.session_id, peer_id |-> o.peer_id,
                         files |-> o.files, key |-> generate_key,
                         cancelled |-> FALSE]
            /\ pull' = [NoPull EXCEPT !.pc = "top", !.file = 1]
            /\ offer_calls' = [offer_calls EXCEPT ![c].pc = "done",
                  ![c].result = "Ok", ![c].sent = 1, ![c].session = TRUE]
       ELSE /\ offer_calls' = [offer_calls EXCEPT ![c].pc = "done",
                  ![c].result = "send failed", ![c].sent = 1]
            /\ UNCHANGED <<offer, offer_result, receive_sessions, rsess, pull>>
  /\ UNCHANGED <<offerCallRest, pending>>

\* reject_and_respond after send_response.
reject_respond(c, sent_ok) ==
  /\ c \in DOMAIN offer_calls
  /\ offer_calls[c].op = "reject"
  /\ offer_calls[c].pc = "sending"
  /\ LET o == offer_calls[c].offer IN
       IF sent_ok
       THEN /\ offer' = [offer EXCEPT ![o.peer_id] = "answered"]
            /\ offer_result' = [offer_result EXCEPT ![o.peer_id] =
                  [accepted |-> FALSE, key |-> NoKey, reason |-> "user-rejected"]]
            /\ offer_calls' = [offer_calls EXCEPT ![c].pc = "done",
                  ![c].result = "Ok", ![c].sent = 1]
       ELSE /\ offer_calls' = [offer_calls EXCEPT ![c].pc = "done",
                  ![c].result = "send failed", ![c].sent = 1]
            /\ UNCHANGED <<offer, offer_result>>
  /\ UNCHANGED <<offerCallRest, pending, receive_sessions, rsess, pull>>

\* Offers arrive at R while the UI accepts and rejects them, any number of
\* times and in any order.
OfferCallNext ==
  \/ \E p \in Offerers : send_offer(p)
  \/ \E p \in Offerers : DispatchOffer(p)
  \/ \E op \in OfferOps, session_id \in Sessions : offer_call_begin(op, session_id)
  \/ \E c \in 1..MaxOfferCalls, sent_ok \in BOOLEAN : accept_respond(c, sent_ok)
  \/ \E c \in 1..MaxOfferCalls, sent_ok \in BOOLEAN : reject_respond(c, sent_ok)

OfferCallSpec == Init /\ [][OfferCallNext]_vars

(***************************************************************************)
(* Claims on the calls on a pending offer                                  *)
(***************************************************************************)
\* The calls on a session id that obtained its pending offer.
Obtained(session_id) ==
  {c \in DOMAIN offer_calls : /\ offer_calls[c].session_id = session_id
                              /\ offer_calls[c].offer # NoOffer}

\* The offer of a session was cached by the event loop at some time.
WasCached(session_id) ==
  \E k \in DOMAIN ui_R : /\ ui_R[k].name = "transfer-offer"
                         /\ ui_R[k].session_id = session_id

\* C35: a cached pending offer is consumed at most once. Of the accept and
\* reject calls made on one session id, exactly one obtains the offer and
\* sends one OfferResult; every other call returns "pending offer not found",
\* sends nothing and creates no session.
C35_PendingOfferConsumedOnce ==
  /\ \A session_id \in Sessions :
       /\ Cardinality(Obtained(session_id)) <= 1
       /\ pending[session_id] # NoOffer => Obtained(session_id) = {}
       /\ (WasCached(session_id) /\ pending[session_id] = NoOffer)
            => Cardinality(Obtained(session_id)) = 1
  /\ \A c \in DOMAIN offer_calls :
       IF offer_calls[c].offer = NoOffer
       THEN /\ offer_calls[c].pc = "done"
            /\ offer_calls[c].result = "pending offer not found"
            /\ offer_calls[c].sent = 0
            /\ ~offer_calls[c].session
       ELSE /\ offer_calls[c].pc = "done" => offer_calls[c].sent = 1
            /\ offer_calls[c].session => offer_calls[c].op = "accept"
  /\ Cardinality({c \in DOMAIN offer_calls : offer_calls[c].session}) <= 1

\* An accept and a reject were made on the cached offer of S and both
\* returned: one answered the offer, the other found no pending offer.
C35_Witness ==
  \E a, b \in DOMAIN offer_calls :
    /\ offer_calls[a].session_id = "s1" /\ offer_calls[b].session_id = "s1"
    /\ offer_calls[a].op # offer_calls[b].op
    /\ offer_calls[a].result = "Ok"
    /\ offer_calls[b].result = "pending offer not found"
    /\ a < b

(***************************************************************************)
(* A cancelled pull of a file that ends in zero bytes                      *)
(***************************************************************************)
\* A file of two chunks whose second chunk holds only zero bytes, as in a
\* sparse or zero-padded file.
F_sparse == MkFile(5, CHUNK_SIZE + 1, <<7, 0>>)

SparseInit == PairVarsInit /\ files = <<F_sparse>> /\ XferStart

\* The transfer of F_sparse, with cancellations and faults.
SparseSpec == SparseInit /\ [][Next]_vars

\* Chunk i of the current file was fetched, decrypted and written.
ChunkWritten(i) ==
  /\ tasks[i].pc = "done"
  /\ tasks[i].sent >= 1
  /\ tasks[i].resp = NoResp

\* Every chunk of the current file was fetched, decrypted and written.
AllChunksWritten ==
  /\ DOMAIN tasks = 0..(calc_total_chunks(CurFile.size) - 1)
  /\ \A i \in DOMAIN tasks : ChunkWritten(i)

\* C36: the .part file is renamed to its final path only if every chunk of
\* the file was fetched, decrypted and written; a file whose pulling was cut
\* short by the cancel flag is neither verified nor renamed.
C36_RenameOnlyAfterEveryChunk ==
  pull.pc \in {"verify", "rename"} => AllChunksWritten

\* The .part file is renamed only if every chunk of the file was written.
NoPartialFileFinalised == pull.pc = "rename" => AllChunksWritten

(***************************************************************************)
(* Claims on the terminal event of a receive session                       *)
(***************************************************************************)
\* The transfer-complete and transfer-failed events R emitted for a session.
TerminalEventsR(session_id) ==
  {k \in 1..Len(ui_R) : /\ ui_R[k].session_id = session_id
                        /\ ui_R[k].name \in {"transfer-complete", "transfer-failed"}}

\* C37: a receive session whose pull task started produces exactly one
\* terminal UI event, transfer-complete or transfer-failed: never two, and
\* one once the pull task has returned.
C37_ExactlyOneTerminalEvent ==
  rsess # NoSession =>
    /\ Cardinality(TerminalEventsR(rsess.session_id)) <= 1
    /\ pull.pc \in {"finished", "done"} =>
         Cardinality(TerminalEventsR(rsess.session_id)) = 1

(***************************************************************************)
(* Claims on the registration of the send session                          *)
(***************************************************************************)
\* The ChunkRequest of chunk task i was dispatched on S and its answer is on
\* the way to R.
Dispatched(i) ==
  /\ tasks[i].pc = "resp"
  /\ tasks[i].resp.kind \in {"Ack", "Chunk"}

\* C38: the sender has registered the send session before any ChunkRequest
\* of the session is dispatched: while send_offer still waits to resume from
\* the accepting OfferResult, no ChunkRequest has been dispatched, and none
\* is answered with an Ack because the session is not yet in send_sessions.
C38_RegisteredBeforeFirstChunkRequest ==
  (start_send = "awaiting" /\ offer_result["S"].accepted) =>
    \A i \in DOMAIN tasks : ~Dispatched(i)

(***************************************************************************)
(* Claims on the sender of an inbound frame                                *)
(***************************************************************************)
\* The peer of each session S holds: R accepted the offer of s1, and s2 is
\* received from R.
LoopSessionPeer(session_id) == "R"

\* Frame f named a session S held when the frame was taken, and came from
\* the peer of that session.
FromSessionPeer(f) ==
  /\ f.session \/ f.cleanup # "none"
  /\ f.peer_id = LoopSessionPeer(f.session_id)

\* C39: an inbound ChunkRequest, Complete or Cancel acts on a session only
\* when the node holds that session id and the frame comes from the peer of
\* the session. Any other frame removes and cancels no session and emits no
\* event when it is taken, and its tasks serve no chunk, emit no event and
\* delete nothing.
C39_FramesActOnlyForTheSessionPeer ==
  [][/\ (/\ Len(loop'.frames) > Len(loop.frames)
         /\ ~FromSessionPeer(loop'.frames[Len(loop'.frames)]))
          => /\ send_sessions' = send_sessions
             /\ send_cancelled' = send_cancelled
             /\ loop'.recv = loop.recv
             /\ loop'.recv_cancelled = loop.recv_cancelled
             /\ ui_S' = ui_S
     /\ \A k \in DOMAIN loop.frames :
          (loop'.frames[k] # loop.frames[k] /\ ~FromSessionPeer(loop.frames[k]))
            => /\ ui_S' = ui_S
               /\ progress' = progress
               /\ loop'.parts = loop.parts
               /\ \A j \in DOMAIN loop'.frames[k].responses :
                    loop'.frames[k].responses[j].kind # "Chunk"]_vars

\* The same for the frames that name a session the node does not hold, with
\* the events left aside: no session is removed or cancelled and no chunk is
\* served for them.
UnknownSessionTouchesNoSession ==
  [][/\ (/\ Len(loop'.frames) > Len(loop.frames)
         /\ LET f == loop'.frames[Len(loop'.frames)]
            IN ~(f.session \/ f.cleanup # "none"))
          => /\ send_sessions' = send_sessions
             /\ send_cancelled' = send_cancelled
             /\ loop'.recv = loop.recv
             /\ loop'.recv_cancelled = loop.recv_cancelled
     /\ \A k \in DOMAIN loop.frames :
          (/\ loop'.frames[k] # loop.frames[k]
           /\ ~(loop.frames[k].session \/ loop.frames[k].cleanup # "none"))
            => /\ progress' = progress
               /\ loop'.parts = loop.parts
               /\ \A j \in DOMAIN loop'.frames[k].responses :
                    loop'.frames[k].responses[j].kind # "Chunk"]_vars

(***************************************************************************)
(* Claims on the active code across handle_pairing_request                 *)
(***************************************************************************)
\* Call c passed the verification of a Code request answered with Success:
\* it has set active_code to None and awaits send_response.
HoldsConsumedCode(c) == calls[c].pc = "respond" /\ calls[c].code # "none"

\* C40: handle_pairing_request is all-or-nothing on the active code: a call
\* that returns an error (InvalidCode, ExpiredCode, a send failure) or
\* returns without pairing leaves the active code as it found it; only a
\* call that adds the requester to the paired set has consumed the code.
C40_CodeConsumedOnlyByPairing ==
  [][\A c \in CallIds :
       (/\ calls[c].pc # "done"
        /\ calls'[c].pc = "done"
        /\ calls'[c].result # "OkSome")
         => /\ active_code' = active_code
            /\ ~HoldsConsumedCode(c)]_vars

\* A call that fails the verification leaves the active code as it found it.
FailedVerificationKeepsCode ==
  [][\A c \in CallIds :
       (/\ calls[c].pc = "idle"
        /\ calls'[c].pc = "done"
        /\ calls'[c].result \in {"InvalidCode", "ExpiredCode"})
         => active_code' = active_code]_vars

====
